---- MODULE Spec2Model ----
(***************************************************************************)
(* Model of the WebSocket registry (nodes/WebSocketRegistry.ts), of the    *)
(* trigger node that attaches workflows to its servers                     *)
(* (nodes/WebSocketTrigger/WebSocketTrigger.node.ts) and of the response   *)
(* node that registers executions while it sends (WebSocketResponse).      *)
(*                                                                         *)
(* The JavaScript event loop runs the code between two suspension points   *)
(* without interruption, so one action is one such segment.  A promise     *)
(* that is already resolved when it is awaited (closeServer on an absent   *)
(* entry or on its soft branch, getOrCreateServer without a config change) *)
(* only yields to the microtask queue; the caller's continuation is part   *)
(* of the same action.  The only real suspensions are the await of the     *)
(* listener's close (callback or 5 s timeout), the 5 s sleep of the        *)
(* closeFunction in manual mode, the timers and the sends of a response.   *)
(***************************************************************************)
EXTENDS Integers, Sequences, FiniteSets, TLC

\* ------------------------------------------------------------------ bounds
MaxWss == 2         \* listeners created in one behaviour of Spec
MaxSocks == 1       \* client connections accepted in one behaviour of Spec
MaxStarts == 2      \* trigger() invocations in one behaviour of Spec
MaxResp == 1        \* response items processed in one behaviour of Spec
RaceWss == 3        \* listeners created in one behaviour of SpecRace
RaceStarts == 3     \* trigger() invocations in one behaviour of SpecRace
AuthSocks == 2      \* upgrade requests accepted in one behaviour of SpecAuth
AllWss == 4         \* size of the table of suspended, unawaited closes
SendSocks == 2      \* client connections accepted in one behaviour of SpecSend
BeatSocks == 2      \* client connections accepted in one behaviour of SpecBeat
IdemStarts == 2     \* trigger() invocations in one behaviour of SpecIdem
MsgStarts == 2      \* trigger() invocations in one behaviour of SpecMsg
MsgSocks == 1       \* client connections accepted in one behaviour of SpecMsg
MaxMsgs == 2        \* messages one trigger closure receives in SpecMsg
ExclStarts == 2     \* trigger() invocations in one behaviour of SpecExcl
ExclSocks == 1      \* client connections accepted in one behaviour of SpecExcl
FrameStarts == 2    \* trigger() invocations in one behaviour of SpecFrames
FrameSocks == 1     \* client connections accepted in one behaviour of SpecFrames
MaxFrames == 2      \* frames one connection receives in SpecFrames
SweepWss == 2       \* listeners created in one behaviour of SpecSweep
SweepSocks == 1     \* client connections accepted in one behaviour of SpecSweep
MaxAge == 2         \* half hours an entry's idle time is counted up to
ItemResps == 2      \* items of the execution of SpecItems
ItemSocks == 1      \* client connections accepted in one behaviour of SpecItems
AllResps == 2       \* size of the table of response items
VerifySocks == 1    \* upgrade requests accepted in one behaviour of SpecVerify
CloseStarts == 2    \* trigger() invocations in one behaviour of SpecClose
CloseWss == 2       \* listeners created in one behaviour of SpecClose
ReadWss == 2        \* listeners created in one behaviour of SpecRead
ReadSocks == 1      \* client connections accepted in one behaviour of SpecRead
PingSocks == 2      \* client connections accepted in one behaviour of SpecPing
PingFrames == 2     \* frames received in one behaviour of SpecPing
ErrSocks == 2       \* client connections accepted in one behaviour of SpecErr
IdSocks == 3        \* client connections accepted in one behaviour of SpecIds
FifoSocks == 2      \* client connections accepted in one behaviour of SpecFifo
FifoFrames == 3     \* frames received in one behaviour of SpecFifo

Triggers == {1, 2}
ServerIds == {"ws-main", "ws-aux"}
Ports == {5680, 5681}
ClientIds == {"c1", "c2"}
ExecIds == {"e1", "e2"}
Undefined == "undefined"
Absent == "absent"

Exec(t) == IF t = 1 THEN "e1" ELSE "e2"
Workflow(t) == IF t = 1 THEN "wf1" ELSE "wf2"

VARIABLES
  servers,    \* WebSocketRegistry.servers: serverId -> index in wss, 0 = no entry
  wss,        \* every IServerEntry / WebSocket.Server created so far
  socks,      \* every client connection accepted so far
  timers,     \* pending "last_workflow_removed" timers, per serverId
  detached,   \* closeServer calls nobody awaits, suspended on the listener close
  ctx,        \* global.websocketExecutionContext (servers, listeners)
  trig,       \* the trigger() invocations and their closures
  resp,       \* the response items in flight
  starts,     \* number of trigger() invocations so far
  shutdown,   \* WebSocketRegistry.cleanup(): its position and the closes it awaits
  lastClose,  \* history: the decision of the latest closeServer call
  lastGoc,    \* history: the outcome of the latest getOrCreateServer call
  lastConn,   \* history: the latest upgrade request and what became of it
  ev          \* history: the operation that produced the current state

vars == <<servers, wss, socks, timers, detached, ctx, trig, resp, starts, shutdown,
          lastClose, lastGoc, lastConn, ev>>

NoConfig == [port |-> 0, path |-> "none", authentication |-> "none",
             serverSharing |-> "none"]

NoClose == [branch |-> "none", w |-> 0, by |-> "none", opt |-> "none",
            serverSharing |-> "none", executions |-> {}, workflows |-> {},
            pending |-> {}, bind |-> "none", ping |-> FALSE, framed |-> TRUE,
            error |-> "none"]

NoGoc == [phase |-> "none", config |-> NoConfig, prev |-> 0,
          w |-> 0, created |-> FALSE, framed |-> TRUE]

\* The request and the credentials of an upgrade whose verification the
\* model does not follow, and the outcome of a verification that did not run.
NoCheck == [headers |-> [h \in {"authorization", "x-api-key"} |->
                           IF h = "authorization" THEN <<>> ELSE <<"absent">>],
            credentials |-> [defined |-> FALSE],
            thrown |-> 0, value |-> "undefined"]

NoConn == [w |-> 0, authentication |-> "none", credentialsOk |-> TRUE,
           accepted |-> FALSE, clientId |-> Undefined, sock |-> 0,
           check |-> NoCheck]

\* The part of the state the registry and the nodes read and write; the
\* operations below are functions from store to store so that a handler
\* that makes several registry calls in a row is one action.  The history
\* fields describe the calls of the current action only.
Store ==
  [servers |-> servers, wss |-> wss, socks |-> socks, timers |-> timers,
   ctx |-> ctx, lastClose |-> NoClose, lastGoc |-> NoGoc]

Commit(S) ==
  /\ servers' = S.servers
  /\ wss' = S.wss
  /\ socks' = S.socks
  /\ timers' = S.timers
  /\ ctx' = S.ctx
  /\ lastClose' = S.lastClose
  /\ lastGoc' = S.lastGoc

\* The registry's own state, without the history fields.
Core(S) == <<S.servers, S.wss, S.socks, S.timers>>

NoExecs == [e \in ExecIds |-> 0]
NoClients == [c \in ClientIds |-> 0]

\* ---------------------------------------------------------------- registry

\* config.serverSharing || 'shared'
EffSharing(config) ==
  IF config.serverSharing = Undefined THEN "shared" ELSE config.serverSharing

\* wss.address(): an object while the listener is bound, null after a failed
\* bind and from the moment close() has been called.
Address(S, w) == S.wss[w].bind = "listening"

\* The port is held by a listener of this process.
PortInUse(S, port) ==
  \E w \in 1..Len(S.wss) : S.wss[w].bind = "listening" /\ S.wss[w].port = port

\* updateLastActivity (lines 278-283), on the entry the identifier maps to.
\* lastActivity is kept as the time since the last activity, in half
\* hours.
UpdateLastActivity(S, serverId) ==
  IF S.servers[serverId] = 0 THEN S
  ELSE [S EXCEPT !.wss[S.servers[serverId]].lastActivity = 0]

\* createServer: new WebSocket.Server binds at once (listen with a port and
\* no host); a bind error is only logged by the "error" handler, and the
\* entry is stored either way.  bindOk is the answer of the operating system
\* for a port no listener of this process holds.
CreateServer(S, serverId, config, bindOk) ==
  LET entry ==
        [sid |-> serverId,
         port |-> config.port,
         path |-> config.path,
         authentication |-> config.authentication,
         serverSharing |-> EffSharing(config),
         bind |-> IF bindOk /\ ~PortInUse(S, config.port)
                  THEN "listening" ELSE "failed",
         pingInterval |-> TRUE,
         clients |-> NoClients,
         activeExecutions |-> {},
         activeWorkflows |-> {},
         listeners |-> {},
         emitted |-> [t \in Triggers |-> <<>>],
         lastActivity |-> 0,
         pending |-> NoExecs]
      new == Len(S.wss) + 1
  IN [S EXCEPT !.wss = Append(@, entry), !.servers[serverId] = new]

ConfigChangedInvertedSharing(entry, config) ==
  \/ entry.port # config.port
  \/ entry.path # config.path
  \/ entry.serverSharing = EffSharing(config)

\* getOrCreateServer, lines 297-299
ConfigChanged(entry, config) ==
  \/ entry.port # config.port
  \/ entry.path # config.path
  \/ entry.serverSharing # EffSharing(config)

\* options.keepClientsAlive !== false
KeepClientsAlive(opt) == opt # "false"

ShouldCompletelyCloseNoForce(entry, keepClientsAlive) ==
  \/ entry.serverSharing = "exclusive"
  \/ (entry.activeExecutions = {} /\ entry.activeWorkflows = {})

ShouldCompletelyCloseNoExclusive(entry, keepClientsAlive) ==
  \/ (entry.activeExecutions = {} /\ entry.activeWorkflows = {})
  \/ ~keepClientsAlive

\* closeServer, lines 372-380
ShouldCompletelyClose(entry, keepClientsAlive) ==
  \/ entry.serverSharing = "exclusive"
  \/ (entry.activeExecutions = {} /\ entry.activeWorkflows = {})
  \/ ~keepClientsAlive

\* The connections the entry's client table holds.
TableSocks(entry) == {entry.clients[c] : c \in ClientIds} \ {0}

\* closeServer lines 385-395: client.close(1000, ...) for every OPEN client.
CloseClients(S, w) ==
  [S EXCEPT !.socks =
     [s \in 1..Len(S.socks) |->
        IF s \in TableSocks(S.wss[w]) /\ S.socks[s].readyState = "OPEN"
        THEN [S.socks[s] EXCEPT !.readyState = "CLOSING", !.code = 1000]
        ELSE S.socks[s]]]

\* The wrapped wss.close (lines 253-259): clearInterval, then the original
\* close, which stops listening at once.
WssClose(S, w) ==
  [S EXCEPT !.wss[w].pingInterval = FALSE, !.wss[w].bind = "closing"]

HardCloseKeepsHeartbeat(S, w) ==
  [CloseClients(S, w) EXCEPT !.wss[w].bind = "closing"]

\* closeServer lines 384-412, up to the await.
HardCloseStart(S, w) == WssClose(CloseClients(S, w), w)

SoftCloseDropsClients(S, w) == [S EXCEPT !.wss[w].clients = NoClients]

\* closeServer lines 418-422: the soft branch only logs.
SoftClose(S, w) == S

PendingExecs(entry) == {e \in ExecIds : entry.pending[e] > 0}

\* closeServer up to its first suspension.  The result says whether the
\* call is now suspended on the listener close (the hard branch).  error
\* is what the promise of the call rejects with: no branch throws, and for
\* an identifier without entry the call logs and returns (lines 358-362).
CloseServerCall(S, serverId, opt, by) ==
  LET w == S.servers[serverId]
      keepClientsAlive == KeepClientsAlive(opt)
  IN
  IF w = 0
  THEN [S |-> [S EXCEPT !.lastClose =
                 [NoClose EXCEPT !.branch = "absent", !.by = by, !.opt = opt]],
        suspended |-> FALSE, w |-> 0]
  ELSE
    LET entry == S.wss[w]
        hard == ShouldCompletelyClose(entry, keepClientsAlive)
        S2 == IF hard THEN HardCloseStart(S, w) ELSE SoftClose(S, w)
        rec == [branch |-> IF hard THEN "hard" ELSE "soft",
                w |-> w, by |-> by, opt |-> opt,
                serverSharing |-> entry.serverSharing,
                executions |-> entry.activeExecutions,
                workflows |-> entry.activeWorkflows,
                pending |-> PendingExecs(entry),
                bind |-> entry.bind,
                ping |-> entry.pingInterval,
                framed |-> (Core(S2) = Core(S)),
                error |-> "none"]
    IN [S |-> [S2 EXCEPT !.lastClose = rec], suspended |-> hard, w |-> w]

\* The mutation: the promise resolves only when the listener reports.
CloseSettlesOnlyOnUnbind(entry) == entry.bind = "closed"

\* The promise closeServer awaits (lines 397-412) can resolve: the
\* listener has reported the end of its close, or it has not and the
\* 5 s timeout fires.
CloseSettles(entry) == entry.bind \in {"closing", "closed"}

CloseServerDoneKeepsEntry(S, serverId) == S

\* closeServer lines 415-424, after the await: this.servers.delete(serverId)
CloseServerDone(S, serverId) == [S EXCEPT !.servers[serverId] = 0]

\* getServer: the lookup (lastActivity is not part of this model's state)
GetServer(S, serverId) == S.servers[serverId]

\* getClient
GetClient(S, serverId, clientId) ==
  IF S.servers[serverId] = 0 THEN 0
  ELSE S.wss[S.servers[serverId]].clients[clientId]

HasActiveWorkflows(S, serverId) ==
  S.servers[serverId] # 0 /\ S.wss[S.servers[serverId]].activeWorkflows # {}

HasActiveExecutions(S, serverId) ==
  S.servers[serverId] # 0 /\ S.wss[S.servers[serverId]].activeExecutions # {}

RegisterExecution(S, serverId, executionId) ==
  LET w == S.servers[serverId] IN
  IF w # 0 /\ executionId # Undefined
  THEN UpdateLastActivity(
         [S EXCEPT !.wss[w].activeExecutions = @ \cup {executionId},
                   !.wss[w].pending[executionId] = @ + 1], serverId)
  ELSE S

UnregisterExecution(S, serverId, executionId) ==
  LET w == S.servers[serverId] IN
  IF w # 0 /\ executionId # Undefined
  THEN UpdateLastActivity(
         [S EXCEPT !.wss[w].activeExecutions = @ \ {executionId},
                   !.wss[w].pending[executionId] = IF @ > 0 THEN @ - 1 ELSE 0],
         serverId)
  ELSE S

RegisterWorkflow(S, serverId, workflowId) ==
  LET w == S.servers[serverId] IN
  IF w # 0
  THEN UpdateLastActivity(
         [S EXCEPT !.wss[w].activeWorkflows = @ \cup {workflowId}], serverId)
  ELSE S

\* unregisterWorkflow: removing the last workflow of an exclusive entry
\* arms a 1 s timer that calls closeServer(serverId, keepClientsAlive false)
UnregisterWorkflow(S, serverId, workflowId) ==
  LET w == S.servers[serverId] IN
  IF w # 0
  THEN LET S2 == UpdateLastActivity(
                   [S EXCEPT !.wss[w].activeWorkflows = @ \ {workflowId}],
                   serverId)
       IN IF S2.wss[w].activeWorkflows = {} /\ S2.wss[w].serverSharing = "exclusive"
          THEN [S2 EXCEPT !.timers[serverId] = @ + 1]
          ELSE S2
  ELSE S


\* getOrCreateServer up to its first suspension (lines 285-319).  An entry
\* whose listener has no address is returned without any comparison.
GetOrCreateCall(S, serverId, config, bindOk) ==
  LET w == S.servers[serverId] IN
  IF w # 0
  THEN
    IF Address(S, w) /\ ConfigChanged(S.wss[w], config)
    THEN LET c == CloseServerCall(S, serverId, "false", "config_change")
         IN [S |-> [c.S EXCEPT !.lastGoc =
                      [phase |-> "closing", config |-> config, prev |-> w,
                       w |-> 0, created |-> FALSE, framed |-> FALSE]],
             suspended |-> TRUE, w |-> 0]
    ELSE [S |-> [UpdateLastActivity(S, serverId) EXCEPT !.lastGoc =
                   [phase |-> "returned", config |-> config, prev |-> w,
                    w |-> S.servers[serverId], created |-> FALSE,
                    framed |-> TRUE]],
          suspended |-> FALSE, w |-> S.servers[serverId]]
  ELSE
    LET S2 == CreateServer(S, serverId, config, bindOk)
    IN [S |-> [S2 EXCEPT !.lastGoc =
                 [phase |-> "returned", config |-> config, prev |-> 0,
                  w |-> S2.servers[serverId], created |-> TRUE,
                  framed |-> FALSE]],
        suspended |-> FALSE, w |-> S2.servers[serverId]]

\* getOrCreateServer after the awaited closeServer (lines 306-310): the
\* close removes whatever entry the identifier maps to, then createServer.
GetOrCreateDone(S, serverId, config, prev, bindOk) ==
  LET S2 == CreateServer(CloseServerDone(S, serverId), serverId, config, bindOk)
  IN [S |-> [S2 EXCEPT !.lastGoc =
               [phase |-> "returned", config |-> config, prev |-> prev,
                w |-> S2.servers[serverId], created |-> TRUE,
                framed |-> FALSE]],
      suspended |-> FALSE, w |-> S2.servers[serverId]]

\* ----------------------------------------------------------------- trigger

TheServer == "ws-main"    \* serverId = `ws-${connectionId}`, a custom id

Params(port, sharing, auth, mode, behavior, hasExecutionId) ==
  [port |-> port, path |-> "/ws", serverSharing |-> sharing,
   authentication |-> auth, mode |-> mode,
   testExecutionBehavior |-> behavior, hasExecutionId |-> hasExecutionId]

\* The node parameters the triggers of the model are started with.
TriggerParams ==
  { Params(5680, "shared", "none", "trigger", "auto_stop", TRUE),
    Params(5680, "exclusive", "none", "trigger", "auto_stop", TRUE),
    Params(5680, "shared", "none", "manual", "auto_stop", TRUE),
    Params(5680, "shared", "none", "manual", "keep_listening", TRUE),
    Params(5680, "exclusive", "none", "manual", "keep_listening", TRUE) }

\* The shared-mode parameters among them.
SharedParams == {p \in TriggerParams : p.serverSharing = "shared"}

\* Parameters that change the port, and a workflow edit (no execution id).
RaceParams ==
  { Params(5680, "shared", "none", "trigger", "auto_stop", TRUE),
    Params(5680, "exclusive", "none", "trigger", "auto_stop", TRUE),
    Params(5681, "shared", "none", "trigger", "auto_stop", TRUE),
    Params(5680, "shared", "none", "trigger", "auto_stop", FALSE) }

\* Shared-mode parameters of a regular and of a keep_listening test run.
MsgParams ==
  { Params(5680, "shared", "none", "trigger", "auto_stop", TRUE),
    Params(5680, "shared", "none", "manual", "keep_listening", TRUE) }

\* Parameters with and without authentication.
AuthParams ==
  { Params(5680, "shared", "none", "trigger", "auto_stop", TRUE),
    Params(5680, "shared", "basicAuth", "trigger", "auto_stop", TRUE) }

\* Parameters of every authentication mode of the node.
VerifyParams ==
  { Params(5680, "shared", auth, "trigger", "auto_stop", TRUE) :
      auth \in {"none", "basicAuth", "headerAuth", "jwtAuth"} }

\* A shared server on one port and an exclusive server on another.
CloseParams ==
  { Params(5680, "shared", "none", "trigger", "auto_stop", TRUE),
    Params(5681, "exclusive", "none", "trigger", "auto_stop", TRUE) }

\* The parameters of a regular run on an exclusive server.
ExclParams == { Params(5680, "exclusive", "none", "trigger", "auto_stop", TRUE) }

NoParams == Params(5680, "shared", "none", "trigger", "auto_stop", TRUE)

ServerConfig(p) ==
  [port |-> p.port, path |-> p.path, authentication |-> p.authentication,
   serverSharing |-> p.serverSharing]

ExecutionId(t, p) == IF p.hasExecutionId THEN Exec(t) ELSE Undefined

IdleTrigger ==
  [pc |-> "idle", p |-> NoParams, w |-> 0, cleanupExecuted |-> FALSE,
   executionTimeout |-> FALSE, cu |-> "none", force |-> FALSE, prev |-> 0,
   messageCount |-> 0, testTimeout |-> FALSE]

\* trigger() lines 291-485, after the server has been obtained: old
\* listeners of the context are taken off the returned server, the
\* execution and the workflow are registered, the listener is attached.
TriggerAttach(S, t, w, p) ==
  LET old == S.ctx.listeners[TheServer]
      S1 == [S EXCEPT !.wss[w].listeners = @ \ old,
                      !.ctx.listeners[TheServer] = {}]
      S2 == RegisterExecution(S1, TheServer, ExecutionId(t, p))
      S3 == RegisterWorkflow(S2, TheServer, Workflow(t))
  IN [S3 EXCEPT !.ctx.servers[TheServer] = "active",
                !.ctx.listeners[TheServer] = @ \cup {t},
                !.wss[w].listeners = @ \cup {t}]

Attached(t, p, w) ==
  [pc |-> "attached", p |-> p, w |-> w, cleanupExecuted |-> FALSE,
   executionTimeout |-> (p.mode # "manual" \/ p.testExecutionBehavior = "auto_stop"),
   cu |-> trig[t].cu, force |-> FALSE, prev |-> 0,
   messageCount |-> 0, testTimeout |-> FALSE]

\* trigger() lines 269-288: getOrCreateServer and what follows it
TriggerGoc(S, t, p, bindOk) ==
  LET g == GetOrCreateCall(S, TheServer, ServerConfig(p), bindOk) IN
  IF g.suspended
  THEN /\ Commit(g.S)
       /\ trig' = [trig EXCEPT ![t] = [@ EXCEPT !.pc = "gocClose", !.p = p,
                                          !.prev = g.S.lastGoc.prev]]
       /\ ev' = [op |-> "gocSuspend", t |-> t, w |-> g.S.lastGoc.prev]
  ELSE /\ Commit(TriggerAttach(g.S, t, g.w, p))
       /\ trig' = [trig EXCEPT ![t] = Attached(t, p, g.w)]
       /\ ev' = [op |-> "attach", t |-> t, w |-> g.w]

\* Listeners the triggers still waiting for a server will create.
Budget == Len(wss) + Cardinality({t \in Triggers : trig[t].pc \in {"startClose", "gocClose"}})

\* trigger() lines 237-267: an exclusive trigger, and a shared one without
\* an execution id (workflow edit), first closes the server.
TriggerStart(t, params, binds, maxStarts, maxWss) ==
  /\ trig[t].pc \in {"idle", "closed"}
  /\ trig[t].cu = "none"
  /\ starts < maxStarts
  /\ Budget < maxWss
  /\ starts' = starts + 1
  /\ UNCHANGED <<detached, resp, shutdown>> /\ lastConn' = NoConn
  /\ \E p \in params, bindOk \in binds :
       LET isWorkflowEdit == ~p.hasExecutionId
           c == IF p.serverSharing = "exclusive" \/ isWorkflowEdit
                THEN CloseServerCall(Store, TheServer, "false", "trigger_start")
                ELSE [S |-> Store, suspended |-> FALSE, w |-> 0]
       IN IF c.suspended
          THEN /\ Commit(c.S)
               /\ trig' = [trig EXCEPT ![t] = [@ EXCEPT !.pc = "startClose", !.p = p,
                                                  !.prev = c.w]]
               /\ ev' = [op |-> "closeSuspend", t |-> t, w |-> c.w]
          ELSE TriggerGoc(c.S, t, p, bindOk)

\* the awaited closeServer of the start returns
TriggerStartResume(t, binds) ==
  /\ trig[t].pc = "startClose"
  /\ CloseSettles(wss[trig[t].prev])
  /\ UNCHANGED <<detached, resp, starts, shutdown>> /\ lastConn' = NoConn
  /\ \E bindOk \in binds :
       TriggerGoc(CloseServerDone(Store, TheServer), t, trig[t].p, bindOk)

\* the closeServer awaited inside getOrCreateServer returns
TriggerGocResume(t, binds) ==
  /\ trig[t].pc = "gocClose"
  /\ CloseSettles(wss[trig[t].prev])
  /\ UNCHANGED <<detached, resp, starts, shutdown>> /\ lastConn' = NoConn
  /\ \E bindOk \in binds :
       LET p == trig[t].p
           g == GetOrCreateDone(Store, TheServer, ServerConfig(p), trig[t].prev, bindOk)
       IN /\ Commit(TriggerAttach(g.S, t, g.w, p))
          /\ trig' = [trig EXCEPT ![t] = Attached(t, p, g.w)]
          /\ ev' = [op |-> "gocDone", t |-> t, w |-> trig[t].prev]


\* The closure of a trigger whose closeFunction has returned: it is inert
\* unless its cleanupExecution is still suspended.
Closed(tr) ==
  IF tr.cu = "none"
  THEN [IdleTrigger EXCEPT !.pc = "closed"]
  ELSE [tr EXCEPT !.pc = "closed", !.force = FALSE, !.prev = tr.prev,
                  !.executionTimeout = FALSE, !.testTimeout = FALSE,
                  !.messageCount = 0]

\* closeFunction lines 589-598: the context is cleaned after a forced close
CloseFnFinish(S, t, force, tr) ==
  /\ Commit(IF force
            THEN [S EXCEPT !.ctx.servers[TheServer] = "none",
                           !.ctx.listeners[TheServer] = {}]
            ELSE S)
  /\ trig' = [trig EXCEPT ![t] = Closed(tr)]

\* closeFunction lines 575-579: closeServer with keepClientsAlive = !force
CloseFnClose(S, t, force, tr, again) ==
  LET c == CloseServerCall(S, TheServer, IF force THEN "false" ELSE "true",
                           "closeFunction")
  IN IF c.suspended
     THEN /\ Commit(c.S)
          /\ trig' = [trig EXCEPT ![t] = [tr EXCEPT !.pc = "cfClose",
                                                    !.force = force,
                                                    !.prev = c.w]]
          /\ ev' = [op |-> IF again THEN "closeFunctionAgain" ELSE "closeSuspend",
                    t |-> t, w |-> c.w]
     ELSE /\ CloseFnFinish(c.S, t, force, tr)
          /\ ev' = [op |-> IF again THEN "closeFunctionAgain" ELSE "closeFunction",
                    t |-> t, w |-> c.w]

\* closeFunction lines 540-562
ShouldForceClose(S, p) ==
  IF p.mode = "manual" /\ p.testExecutionBehavior = "keep_listening" THEN FALSE
  ELSE IF p.mode = "manual" THEN TRUE
  ELSE IF p.serverSharing = "exclusive" THEN TRUE
  ELSE ~HasActiveWorkflows(S, TheServer)

\* closeFunction lines 516-534: the listener leaves the context (it stays
\* on the server), the context entry is marked inactive, the execution and
\* the workflow are unregistered.
CloseFnUnregister(S, t, p) ==
  LET S1 == [S EXCEPT
               !.ctx.listeners[TheServer] = @ \ {t},
               !.ctx.servers[TheServer] = IF @ = "none" THEN @ ELSE "inactive"]
      S2 == UnregisterExecution(S1, TheServer, ExecutionId(t, p))
  IN UnregisterWorkflow(S2, TheServer, Workflow(t))

\* closeFunction up to the suspension of its closeServer call, the sleep of
\* the manual mode left out.
CloseFunctionCall(S, t, p) ==
  LET S3 == CloseFnUnregister(S, t, p)
  IN CloseServerCall(S3, TheServer,
                     IF ShouldForceClose(S3, p) THEN "false" ELSE "true",
                     "closeFunction")

CleanupExecutedNever(tr) == FALSE

\* The cleanupExecuted flag of the closure (lines 324, 328, 489): set by the
\* first run of closeFunction or cleanupExecution, for good.
CleanupExecuted(tr) ==
  tr.cleanupExecuted \/ tr.pc \in {"cfSleep", "cfClose", "closed"}

\* closeFunction lines 488-573, invoked by the orchestrator: once per
\* closure, or any number of times when repeats is set
CloseFunction(t, repeats) ==
  /\ trig[t].pc = "attached"
       \/ (repeats /\ trig[t].pc \in {"cfSleep", "cfClose", "closed"})
  /\ UNCHANGED <<detached, resp, starts, shutdown>> /\ lastConn' = NoConn
  /\ LET again == trig[t].cleanupExecuted \/ trig[t].pc # "attached" IN
     IF CleanupExecuted(trig[t])
     THEN /\ trig' = [trig EXCEPT ![t] = IF @.pc = "attached" THEN Closed(@) ELSE @]
          /\ ev' = [op |-> "closeFunctionAgain", t |-> t, w |-> 0]
          /\ Commit(Store)
     ELSE
       LET p == trig[t].p
           tr == [trig[t] EXCEPT !.cleanupExecuted = TRUE,
                                 !.executionTimeout = FALSE,
                                 !.testTimeout = FALSE]
           S3 == CloseFnUnregister(Store, t, p)
           force == ShouldForceClose(S3, p)
       IN IF p.mode = "manual" /\ force
          THEN /\ Commit(S3)
               /\ trig' = [trig EXCEPT ![t] = [tr EXCEPT !.pc = "cfSleep",
                                                         !.force = TRUE]]
               /\ ev' = [op |-> IF again THEN "closeFunctionAgain"
                                ELSE "closeFunctionSleep", t |-> t, w |-> 0]
          ELSE CloseFnClose(S3, t, force, tr, again)

\* closeFunction lines 567-579: the 5 s sleep of the manual mode is over
CloseFnWake(t) ==
  /\ trig[t].pc = "cfSleep"
  /\ UNCHANGED <<detached, resp, starts, shutdown>> /\ lastConn' = NoConn
  /\ CloseFnClose(Store, t, TRUE, trig[t], FALSE)

\* the closeServer awaited by the closeFunction returns
CloseFnResume(t) ==
  /\ trig[t].pc = "cfClose"
  /\ CloseSettles(wss[trig[t].prev])
  /\ UNCHANGED <<detached, resp, starts, shutdown>> /\ lastConn' = NoConn
  /\ CloseFnFinish(CloseServerDone(Store, TheServer), t, trig[t].force, trig[t])
  /\ ev' = [op |-> "closeDone", t |-> t, w |-> trig[t].prev]

\* cleanupExecution(reason), lines 327-398: the first run of the closure's
\* cleanup clears its timeouts and unregisters the execution; a manual
\* execution then force-closes the server (auto_stop, or the test timeout
\* whatever the behaviour), a regular one only in exclusive mode.
CleanupExecution(t, reason) ==
  /\ trig[t].pc = "attached"
  /\ ~trig[t].cleanupExecuted
  /\ UNCHANGED <<detached, resp, starts, shutdown>> /\ lastConn' = NoConn
  /\ LET p == trig[t].p
         tr == [trig[t] EXCEPT !.cleanupExecuted = TRUE,
                               !.executionTimeout = FALSE,
                               !.testTimeout = FALSE]
         S1 == UnregisterExecution(Store, TheServer, ExecutionId(t, p))
         manual == p.mode = "manual"
         closes == IF manual
                   THEN p.testExecutionBehavior = "auto_stop"
                          \/ reason = "test_execution_timeout"
                   ELSE ~HasActiveExecutions(S1, TheServer)
                          /\ p.serverSharing = "exclusive"
         c == CloseServerCall(S1, TheServer, "false", "cleanupExecution")
         clean(S) == IF manual
                     THEN [S EXCEPT !.ctx.servers[TheServer] = "none",
                                    !.ctx.listeners[TheServer] = {}]
                     ELSE S
     IN IF ~closes
        THEN /\ Commit(S1)
             /\ trig' = [trig EXCEPT ![t] = tr]
             /\ ev' = [op |-> "cleanup", t |-> t, w |-> 0]
        ELSE IF c.suspended
        THEN /\ Commit(c.S)
             /\ trig' = [trig EXCEPT ![t] = [tr EXCEPT !.cu = "closing", !.prev = c.w]]
             /\ ev' = [op |-> "cleanupSuspend", t |-> t, w |-> c.w]
        ELSE /\ Commit(clean(c.S))
             /\ trig' = [trig EXCEPT ![t] = tr]
             /\ ev' = [op |-> "cleanup", t |-> t, w |-> 0]

\* the 30 s timer armed at line 475 fires
ExecutionTimeout(t) ==
  /\ trig[t].executionTimeout
  /\ CleanupExecution(t, "execution_timeout")

\* the test timer armed by a message (lines 437-440) fires
TestTimeout(t) ==
  /\ trig[t].testTimeout
  /\ CleanupExecution(t, "test_execution_timeout")

\* the closeServer awaited by cleanupExecution returns (lines 373-381)
CleanupResume(t) ==
  /\ trig[t].cu = "closing"
  /\ CloseSettles(wss[trig[t].prev])
  /\ UNCHANGED <<detached, resp, starts, shutdown>> /\ lastConn' = NoConn
  /\ LET S1 == CloseServerDone(Store, TheServer)
     IN Commit(IF trig[t].p.mode = "manual"
               THEN [S1 EXCEPT !.ctx.servers[TheServer] = "none",
                               !.ctx.listeners[TheServer] = {}]
               ELSE S1)
  /\ trig' = [trig EXCEPT ![t] = IF @.pc = "closed"
                                  THEN [IdleTrigger EXCEPT !.pc = "closed"]
                                  ELSE [@ EXCEPT !.cu = "none", !.prev = 0]]
  /\ ev' = [op |-> "closeDone", t |-> t, w |-> trig[t].prev]

\* the timer armed by unregisterWorkflow (lines 469-474) fires; nobody
\* awaits the closeServer it calls
TimerFire(serverId) ==
  /\ timers[serverId] > 0
  /\ UNCHANGED <<trig, resp, starts, shutdown>> /\ lastConn' = NoConn
  /\ LET S1 == [Store EXCEPT !.timers[serverId] = @ - 1]
         c == CloseServerCall(S1, serverId, "false", "last_workflow_removed")
     IN /\ Commit(c.S)
        /\ detached' = IF c.suspended THEN [detached EXCEPT ![c.w] = @ + 1]
                       ELSE detached
        /\ ev' = [op |-> IF c.suspended THEN "closeSuspend" ELSE "timer",
                  t |-> 0, w |-> c.w]

\* a closeServer call that nobody awaits returns
DetachedResume(w) ==
  /\ detached[w] > 0
  /\ CloseSettles(wss[w])
  /\ UNCHANGED <<trig, resp, starts, shutdown>> /\ lastConn' = NoConn
  /\ detached' = [detached EXCEPT ![w] = @ - 1]
  /\ Commit(CloseServerDone(Store, wss[w].sid))
  /\ ev' = [op |-> "closeDone", t |-> 0, w |-> w]


\* The callback of wss.close (lines 403-411): the listener reports that
\* its close has ended.  Nothing obliges a listener to report.
Unbound(w) ==
  /\ w \in 1..Len(wss)
  /\ wss[w].bind = "closing"
  /\ wss' = [wss EXCEPT ![w].bind = "closed"]
  /\ UNCHANGED <<servers, socks, timers, detached, ctx, trig, resp, starts, shutdown>>
  /\ lastClose' = NoClose /\ lastGoc' = NoGoc /\ lastConn' = NoConn
  /\ ev' = [op |-> "unbound", t |-> 0, w |-> w]

\* cleanup() lines 640-648: closeServer with keepClientsAlive false for one
\* entry of the map, if the identifier has one.
CleanupClose(c, serverId) ==
  IF c.S.servers[serverId] = 0 THEN c
  ELSE LET d == CloseServerCall(c.S, serverId, "false", "n8n_shutdown")
       IN [S |-> d.S,
           awaits |-> IF d.suspended THEN c.awaits \cup {d.w} ELSE c.awaits]

\* cleanup() up to its await (lines 630-650): every entry of the map is
\* closed, and the calls are awaited together.
Cleanup ==
  /\ shutdown.pc = "none"
  /\ UNCHANGED <<detached, trig, resp, starts>> /\ lastConn' = NoConn
  /\ LET c == CleanupClose(CleanupClose([S |-> Store, awaits |-> {}],
                                        "ws-main"), "ws-aux")
     IN /\ Commit(c.S)
        /\ shutdown' = [pc |-> "closing", awaits |-> c.awaits]
  /\ ev' = [op |-> "shutdown", t |-> 0, w |-> 0]

\* One of the closeServer calls cleanup() awaits returns.
CleanupCloseResume(w) ==
  /\ shutdown.pc = "closing"
  /\ w \in shutdown.awaits
  /\ CloseSettles(wss[w])
  /\ UNCHANGED <<detached, trig, resp, starts>> /\ lastConn' = NoConn
  /\ Commit(CloseServerDone(Store, wss[w].sid))
  /\ shutdown' = [shutdown EXCEPT !.awaits = @ \ {w}]
  /\ ev' = [op |-> "closeDone", t |-> 0, w |-> w]

\* cleanup() after Promise.all (lines 652-661): the registry file is removed.
CleanupDone ==
  /\ shutdown.pc = "closing"
  /\ shutdown.awaits = {}
  /\ UNCHANGED <<detached, trig, resp, starts>> /\ lastConn' = NoConn
  /\ Commit(Store)
  /\ shutdown' = [shutdown EXCEPT !.pc = "done"]
  /\ ev' = [op |-> "shutdownDone", t |-> 0, w |-> 0]

\* ---------------------------------------------------------------- response

Resps == 1..MaxResp

MaxRetries == 3     \* const maxRetries = 3

NoBroadcast == [returned |-> [kind |-> "none", value |-> 0], live |-> {},
                attempts |-> <<>>, sentCount |-> 0, errorCount |-> 0,
                callbacks |-> 0]

\* One response item: its parameters, the client handle it looked up, the
\* outcome of every attempt of the retry loop so far, the number of retry
\* delays it has slept and, once it is done, its output item.  While the
\* item is suspended, w and executionsBefore keep the entry it registered
\* its execution on and the activeExecutions it found there.
IdleResp == [pc |-> "idle", executionId |-> Undefined, clientId |-> Undefined,
             client |-> 0, found |-> FALSE, log |-> <<>>, delays |-> 0,
             lastError |-> "none", result |-> "none", error |-> "none",
             broadcast |-> NoBroadcast,
             connectionMethod |-> "custom", clientMethod |-> "custom",
             w |-> 0, executionsBefore |-> {},
             out |-> [success |-> FALSE, serverId |-> Absent,
                      clientId |-> Absent, error |-> Absent]]

\* items[i].json, the fields of the input item this model follows: the
\* item holds the server id or the client id under the default property
\* names when the node is told to take it from the input.
InputJson(item) ==
  [serverId |-> IF item.connectionMethod = "fromInput" THEN "ws-main" ELSE Absent,
   clientId |-> IF item.clientMethod = "fromInput" THEN item.clientId ELSE Absent,
   error |-> Absent]

\* The output item (lines 294-305 and 312-320): the input item spread,
\* then success with the server id and the client id used, or failure with
\* the message of the error.
OutputItem(item, result, error) ==
  IF result = "success"
  THEN [success |-> TRUE, serverId |-> "ws-main", clientId |-> item.clientId,
        error |-> InputJson(item).error]
  ELSE [success |-> FALSE, serverId |-> InputJson(item).serverId,
        clientId |-> InputJson(item).clientId, error |-> error]

\* The output item of a finished response item: success, or the message of
\* the error that reached the catch block.
Done(item, result, error) ==
  [item EXCEPT !.pc = "done", !.result = result, !.error = error,
               !.w = 0, !.executionsBefore = {},
               !.out = OutputItem(item, result, error)]

\* client.readyState; reading it from a missing client throws inside the
\* try block of the attempt.
ReadyState(S, client) ==
  IF client = 0 THEN "TypeError" ELSE S.socks[client].readyState

ClientLookupNeverFails(client) == FALSE

\* `if (!client) throw new Error("Client with ID ... not found")`
ClientLookupFails(client) == client = 0

RetryExhaustedOffByOne(attempts) == attempts > MaxRetries

\* `for (let attempt = 0; attempt < maxRetries; attempt++)` is over
RetryExhausted(attempts) == attempts >= MaxRetries

\* An attempt has thrown: the catch of the loop keeps the error, and the
\* loop either sleeps before the next attempt or ends with `throw lastError`,
\* which the catch of the item turns into a failed output item.
AttemptFailed(item, error) ==
  LET it == [item EXCEPT !.log = Append(@, error), !.lastError = error]
  IN IF RetryExhausted(Len(it.log))
     THEN Done(it, "failure", error)
     ELSE [it EXCEPT !.pc = "retryWait"]

\* The start of an attempt (lines 261-275): the state check, then the send,
\* whose callback is awaited.
Attempt(S, item) ==
  IF ReadyState(S, item.client) # "OPEN"
  THEN AttemptFailed(item, IF ReadyState(S, item.client) = "TypeError"
                           THEN "TypeError" ELSE "not_open")
  ELSE [item EXCEPT !.pc = "sendWait"]

\* broadcastToServer (lines 524-559): one send to every OPEN client of the
\* table; a send that throws is counted and the loop goes on; the counts are
\* logged and the function returns nothing.  throws is the set of
\* connections whose send throws.
BroadcastToServer(S, serverId, throws) ==
  LET w == S.servers[serverId]
      table == IF w = 0 THEN {} ELSE TableSocks(S.wss[w])
      open == {s \in table : S.socks[s].readyState = "OPEN"}
      sent == open \ throws
  IN [returned |-> [kind |-> "undefined", value |-> 0],
      live |-> open,
      attempts |-> [s \in 1..Len(S.socks) |-> IF s \in open THEN 1 ELSE 0],
      sentCount |-> Cardinality(sent),
      errorCount |-> Cardinality(open \cap throws),
      callbacks |-> Cardinality(sent)]

\* WebSocketResponse.execute, one item, up to its first suspension: the
\* execution is registered before the server and the client are looked up;
\* an item that throws goes to the catch block, which does not unregister.
RespStart(r, clientIds, methods) ==
  /\ resp[r].pc = "idle"
  /\ UNCHANGED <<detached, trig, starts, shutdown>> /\ lastConn' = NoConn
  /\ \E executionId \in ExecIds, clientId \in clientIds \cup {"broadcast"},
        throws \in SUBSET (1..Len(socks)),
        connectionMethod \in methods, clientMethod \in methods :
       LET S1 == RegisterExecution(Store, TheServer, executionId)
           client == GetClient(S1, TheServer, clientId)
           item == [IdleResp EXCEPT !.executionId = executionId,
                                    !.clientId = clientId,
                                    !.connectionMethod = connectionMethod,
                                    !.clientMethod =
                                      IF clientId = "broadcast" THEN "broadcast"
                                      ELSE clientMethod]
       IN IF GetServer(S1, TheServer) = 0
          THEN /\ throws = {}
               /\ Commit(S1)
               /\ resp' = [resp EXCEPT ![r] = Done(item, "failure", "server_not_found")]
          ELSE IF clientId = "broadcast"
          THEN /\ throws \subseteq TableSocks(S1.wss[S1.servers[TheServer]])
               /\ Commit(UnregisterExecution(S1, TheServer, executionId))
               /\ resp' = [resp EXCEPT ![r] =
                    Done([item EXCEPT !.broadcast =
                            BroadcastToServer(S1, TheServer, throws)],
                         "success", "none")]
          ELSE /\ throws = {}
               /\ Commit(S1)
               /\ resp' = [resp EXCEPT ![r] =
                    IF ClientLookupFails(client)
                    THEN Done(item, "failure", "client_not_found")
                    ELSE Attempt(S1, [item EXCEPT !.client = client,
                                                  !.w = servers[TheServer],
                                                  !.executionsBefore =
                                                    wss[servers[TheServer]].activeExecutions,
                                                  !.found = (S1.wss[S1.servers[TheServer]].clients[clientId] # 0)])]
  /\ ev' = [op |-> "respStart", t |-> 0, w |-> servers[TheServer]]

\* the callback of client.send arrives (lines 267-279): without an error
\* the loop ends and the item unregisters its execution (line 310)
RespSendDone(r) ==
  /\ resp[r].pc = "sendWait"
  /\ UNCHANGED <<detached, trig, starts, shutdown>> /\ lastConn' = NoConn
  /\ \E error \in {"none", "send_error"} :
       IF error = "none"
       THEN /\ Commit(UnregisterExecution(Store, TheServer, resp[r].executionId))
            /\ resp' = [resp EXCEPT ![r] =
                 Done([@ EXCEPT !.log = Append(@, "ok")], "success", "none")]
       ELSE /\ Commit(Store)
            /\ resp' = [resp EXCEPT ![r] = AttemptFailed(@, error)]
  /\ ev' = [op |-> "respSendDone", t |-> 0, w |-> servers[TheServer]]

\* the retry delay is over (lines 256-259): the next attempt starts
RespRetry(r) ==
  /\ resp[r].pc = "retryWait"
  /\ UNCHANGED <<detached, trig, starts, shutdown>> /\ lastConn' = NoConn
  /\ Commit(Store)
  /\ resp' = [resp EXCEPT ![r] = Attempt(Store, [@ EXCEPT !.delays = @ + 1])]
  /\ ev' = [op |-> "respRetry", t |-> 0, w |-> servers[TheServer]]

\* ------------------------------------------------------------------ clients

\* The verifyClient option of createServer (lines 141-156) is an async
\* function of one parameter: called by the handshake it returns a promise,
\* which later settles to true or false.
VerifyClient(entry, credentialsOk) ==
  [kind |-> "promise", settlesTo |-> credentialsOk]

\* JavaScript truthiness of what verifyClient returned: every object is
\* truthy, a promise included.
Truthy(v) == IF v.kind = "boolean" THEN v.value ELSE TRUE

\* The handshake of the ws server with a verifyClient of one parameter:
\* `if (!verifyClient(info)) return abortHandshake(socket, 401)`.
HandshakeCompletes(entry, credentialsOk) ==
  \/ entry.authentication = "none"
  \/ Truthy(VerifyClient(entry, credentialsOk))

\* The client ids the table of a listener does not hold.  The id is a
\* random token (line 205); the specifications that draw it from FreshIds
\* leave the collision of two tokens aside.
FreshIds(w) == {c \in ClientIds : w \in 1..Len(wss) /\ wss[w].clients[c] = 0}

\* this.updateLastActivity(serverId) of a handler of a connection, applied
\* to the listeners as the handler leaves them.
Touch(listeners, serverId) ==
  UpdateLastActivity([Store EXCEPT !.wss = listeners], serverId).wss

\* The handshake of one upgrade request and, when it completes, the
\* "connection" handler (lines 204-251), which stores the client.
Connect(w, clientId, credentialsOk, check) ==
  LET accepted == HandshakeCompletes(wss[w], credentialsOk)
      new == Len(socks) + 1
  IN /\ lastConn' = [w |-> w, authentication |-> wss[w].authentication,
                     credentialsOk |-> credentialsOk, accepted |-> accepted,
                     clientId |-> IF accepted THEN clientId ELSE Undefined,
                     sock |-> IF accepted THEN new ELSE 0,
                     check |-> check]
     /\ IF accepted
        THEN /\ socks' = Append(socks, [w |-> w, clientId |-> clientId,
                                        readyState |-> "OPEN", code |-> 0,
                                        awaitingPong |-> FALSE,
                                        answered |-> FALSE,
                                        missed |-> FALSE,
                                        pingFailed |-> FALSE,
                                        frames |-> <<>>])
             /\ wss' = Touch([wss EXCEPT ![w].clients[clientId] = new],
                              wss[w].sid)
        ELSE UNCHANGED <<socks, wss>>

\* An upgrade request reaches a bound listener; whether its credentials
\* pass the verification is left open.
Upgrade(w, clientIds, maxSocks) ==
  /\ w \in 1..Len(wss)
  /\ wss[w].bind = "listening"
  /\ Len(socks) < maxSocks
  /\ UNCHANGED <<servers, timers, detached, ctx, trig, resp, starts, shutdown>>
  /\ lastClose' = NoClose /\ lastGoc' = NoGoc
  /\ \E clientId \in clientIds, credentialsOk \in BOOLEAN :
       Connect(w, clientId, credentialsOk, NoCheck)
  /\ ev' = [op |-> "upgrade", t |-> 0, w |-> w]

\* ------------------------------------------------ authentication of a request

\* The Authorization header of a request, split into its words; <<>> when
\* the request has none.  "dTpw" is the base64 text of u:p, "dTp4" of u:x;
\* the bearer tokens are described by Jwt below.
AuthorizationHeaders ==
  { <<>>, <<"Basic">>, <<"Basic", "dTpw">>, <<"Basic", "dTp4">>,
    <<"Bearer">>, <<"Bearer", "signed-hs">>, <<"Bearer", "signed-rs">>,
    <<"Bearer", "forged">>, <<"Bearer", "expired">>, <<"Bearer", "garbage">> }

\* req.headers: the Authorization header and the header x-api-key, each
\* present or not.  Node keeps the names of the headers in lower case.
Headers ==
  { [h \in {"authorization", "x-api-key"} |->
       IF h = "authorization" THEN a ELSE k] :
      a \in AuthorizationHeaders, k \in {<<"absent">>, <<"k1">>, <<"k2">>} }

HasOwnProperty(headers, name) ==
  /\ name \in DOMAIN headers
  /\ IF name = "authorization" THEN headers[name] # <<>>
     ELSE headers[name] # <<"absent">>

\* What getCredentials(type) resolves to: nothing (it threw, or returned
\* undefined), or the fields of the credential, any of which may be empty.
CredentialsOf(type) ==
  {[defined |-> FALSE]} \cup
  CASE type = "httpBasicAuth" ->
         { [defined |-> TRUE, user |-> u, password |-> p] :
             u \in {"", "u"}, p \in {"", "p"} }
    [] type = "httpHeaderAuth" ->
         { [defined |-> TRUE, name |-> n, value |-> v] :
             n \in {"", "X-Api-Key"}, v \in {"", "k1"} }
    [] type = "jwtAuth" ->
         { [defined |-> TRUE, keyType |-> kt, secret |-> "s1",
            publicKey |-> "pk1", algorithm |-> alg] :
             kt \in {"passphrase", "pemKey"}, alg \in {"HS256", "RS256"} }
    [] OTHER -> {}

CredentialType(authentication) ==
  CASE authentication = "basicAuth" -> "httpBasicAuth"
    [] authentication = "headerAuth" -> "httpHeaderAuth"
    [] authentication = "jwtAuth" -> "jwtAuth"
    [] OTHER -> "none"

\* basicAuth(req) of the basic-auth package: the user and password of an
\* Authorization header of scheme Basic, undefined for any other header.
BasicAuth(headers) ==
  LET words == headers["authorization"] IN
  IF Len(words) = 2 /\ words[1] = "Basic" /\ words[2] \in {"dTpw", "dTp4"}
  THEN [defined |-> TRUE, name |-> "u",
        pass |-> IF words[2] = "dTpw" THEN "p" ELSE "x"]
  ELSE [defined |-> FALSE]

\* The bearer tokens: the algorithm and the key each was signed with.
Jwt(token) ==
  CASE token = "signed-hs" ->
         [wellFormed |-> TRUE, alg |-> "HS256", key |-> "s1", expired |-> FALSE]
    [] token = "signed-rs" ->
         [wellFormed |-> TRUE, alg |-> "RS256", key |-> "pk1", expired |-> FALSE]
    [] token = "forged" ->
         [wellFormed |-> TRUE, alg |-> "HS256", key |-> "s2", expired |-> FALSE]
    [] token = "expired" ->
         [wellFormed |-> TRUE, alg |-> "HS256", key |-> "s1", expired |-> TRUE]
    [] OTHER ->
         [wellFormed |-> FALSE, alg |-> "none", key |-> "none", expired |-> FALSE]

\* jwt.verify(token, secretOrPublicKey, { algorithms }): the payload, or an
\* error.
JwtVerify(token, secretOrPublicKey, algorithms) ==
  /\ Jwt(token).wellFormed
  /\ Jwt(token).alg \in algorithms
  /\ Jwt(token).key = secretOrPublicKey
  /\ ~Jwt(token).expired

\* name.toLowerCase() of the names of headers of the model.
ToLowerCase(name) == IF name = "X-Api-Key" THEN "x-api-key" ELSE name

Returns(value) == [thrown |-> 0, value |-> value]
Throws(code) == [thrown |-> code, value |-> "undefined"]

\* The headerAuth branch (lines 487-506).
HeaderAuth(headers, expectedAuth) ==
  IF ~expectedAuth.defined THEN Throws(500)
  ELSE IF expectedAuth.name = "" \/ expectedAuth.value = "" THEN Throws(500)
  ELSE IF \/ ~HasOwnProperty(headers, ToLowerCase(expectedAuth.name))
          \/ headers[ToLowerCase(expectedAuth.name)] # <<expectedAuth.value>>
       THEN Throws(403)
  ELSE Returns("undefined")

\* validateWebSocketAuthentication(req, authentication, getCredentials),
\* with expectedAuth what getCredentials resolves to for the mode.
ValidateWebSocketAuthentication(headers, authentication, expectedAuth) ==
  CASE authentication = "none" -> Returns("undefined")
    [] authentication = "basicAuth" ->
         IF ~expectedAuth.defined THEN Throws(500)
         ELSE IF expectedAuth.user = "" \/ expectedAuth.password = ""
              THEN Throws(500)
         ELSE IF ~BasicAuth(headers).defined THEN Throws(401)
         ELSE IF \/ BasicAuth(headers).name # expectedAuth.user
                 \/ BasicAuth(headers).pass # expectedAuth.password
              THEN Throws(403)
         ELSE Returns("undefined")
    [] authentication = "headerAuth" -> HeaderAuth(headers, expectedAuth)
    [] authentication = "jwtAuth" ->
         IF ~expectedAuth.defined THEN Throws(500)
         ELSE LET authHeader == headers["authorization"]
                  secretOrPublicKey ==
                    IF expectedAuth.keyType = "passphrase"
                    THEN expectedAuth.secret ELSE expectedAuth.publicKey
              IN IF Len(authHeader) < 2 THEN Throws(401)
                 ELSE IF JwtVerify(authHeader[2], secretOrPublicKey,
                                   {expectedAuth.algorithm})
                      THEN Returns("payload")
                 ELSE Throws(403)
    [] OTHER -> Returns("undefined")

\* An upgrade request with its headers reaches a bound listener while
\* getCredentials resolves to some credential of the mode: verifyClient
\* (lines 142-155) runs the validation and the handshake goes on.
UpgradeRequest(w, clientIds, maxSocks) ==
  /\ w \in 1..Len(wss)
  /\ wss[w].bind = "listening"
  /\ Len(socks) < maxSocks
  /\ UNCHANGED <<servers, timers, detached, ctx, trig, resp, starts, shutdown>>
  /\ lastClose' = NoClose /\ lastGoc' = NoGoc
  /\ \E clientId \in clientIds, headers \in Headers,
        expectedAuth \in
          CredentialsOf(CredentialType(wss[w].authentication)) :
       LET result == ValidateWebSocketAuthentication(
                       headers, wss[w].authentication, expectedAuth)
       IN Connect(w, clientId, result.thrown = 0,
                  [headers |-> headers, credentials |-> expectedAuth,
                   thrown |-> result.thrown, value |-> result.value])
  /\ ev' = [op |-> "upgradeRequest", t |-> 0, w |-> w]

\* The "close" event of a client connection (lines 237-245): the handler
\* deletes the client id it was created with from the table.
SockClosed(s) ==
  /\ s \in 1..Len(socks)
  /\ socks[s].readyState # "CLOSED"
  /\ UNCHANGED <<servers, timers, detached, ctx, trig, resp, starts, shutdown>>
  /\ lastClose' = NoClose /\ lastGoc' = NoGoc /\ lastConn' = NoConn
  /\ socks' = [socks EXCEPT ![s].readyState = "CLOSED"]
  /\ wss' = Touch([wss EXCEPT ![socks[s].w].clients[socks[s].clientId] = 0],
                   wss[socks[s].w].sid)
  /\ ev' = [op |-> "sockClosed", t |-> 0, w |-> socks[s].w]

\* The keys of the documents of the model, and the value of a missing key.
Keys == {"data", "clientId", "message", "serverId", "timestamp"}
NoFields == [k \in Keys |-> Absent]

\* The frames a client sends: the texts {"data":"d"},
\* {"data":"d","clientId":"spoof"}, {"data":"d","serverId":"spoof"}, 42 and
\* a text that is not JSON.
Bodies == {"object", "objectWithClientId", "objectWithServerId", "42", "hello"}

\* JSON.parse(message.toString()), line 230: the value, or a SyntaxError.
JsonParse(body) ==
  CASE body = "object" ->
         [ok |-> TRUE, type |-> "object",
          fields |-> [NoFields EXCEPT !["data"] = "d"]]
    [] body = "objectWithClientId" ->
         [ok |-> TRUE, type |-> "object",
          fields |-> [NoFields EXCEPT !["data"] = "d", !["clientId"] = "spoof"]]
    [] body = "objectWithServerId" ->
         [ok |-> TRUE, type |-> "object",
          fields |-> [NoFields EXCEPT !["data"] = "d", !["serverId"] = "spoof"]]
    [] body = "42" ->
         [ok |-> TRUE, type |-> "number", fields |-> NoFields]
    [] OTHER ->
         [ok |-> FALSE, type |-> "none", fields |-> NoFields]

\* `{ ...data }`: the own enumerable properties of the value; a number has
\* none.
Spread(value) == IF value.type = "object" THEN value.fields ELSE NoFields

MessageEventPayloadWins(body, clientId) ==
  LET data == JsonParse(body) IN
  IF data.ok
  THEN [Spread(data) EXCEPT !["clientId"] = IF @ = Absent THEN clientId ELSE @]
  ELSE [NoFields EXCEPT !["message"] = body, !["clientId"] = clientId]

\* The "message" handler of a connection (lines 226-235): what it emits on
\* the server for a frame of the client clientId.
MessageEvent(body, clientId) ==
  LET data == JsonParse(body) IN
  IF data.ok
  THEN [Spread(data) EXCEPT !["clientId"] = clientId]
  ELSE [NoFields EXCEPT !["message"] = body, !["clientId"] = clientId]

\* outputData of executeTrigger (lines 406-419): the event spread, then the
\* fields of the trigger over it.
OutputData(data, serverId) ==
  [data EXCEPT !["serverId"] = serverId,
               !["clientId"] = data["clientId"],
               !["timestamp"] = "now"]

DeliverNewestFirst(emitted, event) == <<event>> \o emitted

\* triggerContext.emit (line 424), called synchronously by the listener:
\* the consumer has the events in the order of the calls.
Deliver(emitted, event) == Append(emitted, event)

\* The "error" event of a client connection (lines 247-250): the library
\* has made the connection CLOSING before it emits the event, and the
\* "close" event follows later; the handler logs and refreshes lastActivity.
SockError(s) ==
  /\ s \in 1..Len(socks)
  /\ socks[s].readyState = "OPEN"
  /\ UNCHANGED <<servers, timers, detached, ctx, trig, resp, starts, shutdown>>
  /\ lastClose' = NoClose /\ lastGoc' = NoGoc /\ lastConn' = NoConn
  /\ socks' = [socks EXCEPT ![s].readyState = "CLOSING"]
  /\ wss' = Touch(wss, wss[socks[s].w].sid)
  /\ ev' = [op |-> "sockError", t |-> 0, w |-> socks[s].w]

\* executeTrigger (lines 400-447), the "message" listener of one trigger
\* closure: the message is counted and emitted to the workflow; a manual
\* keep_listening execution re-arms its test timeout, which does nothing
\* once the cleanup of the closure has run.
ExecuteTrigger(tr) ==
  IF tr.pc \in {"idle", "closed"} THEN tr
  ELSE [tr EXCEPT !.messageCount = @ + 1,
                  !.testTimeout = (/\ ~tr.cleanupExecuted
                                   /\ tr.p.mode = "manual"
                                   /\ tr.p.testExecutionBehavior = "keep_listening")]

\* wss.emit("message", data): every listener that is on the server at that
\* moment is called with the event and emits its output item.
EmitMessage(entry, s, n, data) ==
  [entry EXCEPT !.emitted =
     [t \in Triggers |->
        IF t \in entry.listeners
        THEN Deliver(@[t], [s |-> s, n |-> n, data |-> OutputData(data, entry.sid)])
        ELSE @[t]]]

\* The "message" event of a client connection (lines 226-235): the frame is
\* decoded and emitted as a "message" event of the server.  frames is the
\* history of the connection: every frame received and the listeners the
\* server had at that moment.
Message(s, maxMsgs, bodies) ==
  /\ s \in 1..Len(socks)
  /\ socks[s].readyState = "OPEN"
  /\ Len(socks[s].frames) < maxMsgs
  /\ \A t \in Triggers : trig[t].messageCount < maxMsgs
  /\ UNCHANGED <<servers, timers, detached, ctx, resp, starts, shutdown>>
  /\ lastClose' = NoClose /\ lastGoc' = NoGoc /\ lastConn' = NoConn
  /\ \E body \in bodies :
       LET w == socks[s].w
           n == Len(socks[s].frames) + 1
       IN /\ socks' = [socks EXCEPT ![s].frames =
                         Append(@, [body |-> body, listeners |-> wss[w].listeners])]
          /\ wss' = [Touch(wss, wss[w].sid) EXCEPT ![w] =
                       EmitMessage(@, s, n, MessageEvent(body, socks[s].clientId))]
  /\ trig' = [t \in Triggers |->
                IF t \in wss[socks[s].w].listeners /\ trig[t].w = socks[s].w
                THEN ExecuteTrigger(trig[t]) ELSE trig[t]]
  /\ ev' = [op |-> "message", t |-> 0, w |-> socks[s].w]

\* The peer starts the closing handshake: the connection is CLOSING until
\* its "close" event.
PeerClose(s) ==
  /\ s \in 1..Len(socks)
  /\ socks[s].readyState = "OPEN"
  /\ UNCHANGED <<servers, wss, timers, detached, ctx, trig, resp, starts, shutdown>>
  /\ lastClose' = NoClose /\ lastGoc' = NoGoc /\ lastConn' = NoConn
  /\ socks' = [socks EXCEPT ![s].readyState = "CLOSING"]
  /\ ev' = [op |-> "peerClose", t |-> 0, w |-> socks[s].w]

\* The "pong" event of a client connection (lines 221-224): the handler
\* only refreshes lastActivity.  awaitingPong and answered are the peer's
\* side of the exchange: a ping is outstanding, a pong has been sent.
Pong(s) ==
  /\ s \in 1..Len(socks)
  /\ socks[s].readyState = "OPEN"
  /\ socks[s].awaitingPong
  /\ UNCHANGED <<servers, timers, detached, ctx, trig, resp, starts, shutdown>>
  /\ lastClose' = NoClose /\ lastGoc' = NoGoc /\ lastConn' = NoConn
  /\ socks' = [socks EXCEPT ![s].awaitingPong = FALSE, ![s].answered = TRUE]
  /\ wss' = Touch(wss, wss[socks[s].w].sid)
  /\ ev' = [op |-> "pong", t |-> 0, w |-> socks[s].w]

HeartbeatClientEvictsAll(S, w, c) ==
  [S EXCEPT !.wss[w].clients[c] = 0]

\* One client of the ping interval (lines 172-186): an OPEN client is sent
\* a ping, a CLOSED or CLOSING one is deleted from the table.  missed
\* records that the ping of the cycle before was still unanswered.
HeartbeatClient(S, w, c) ==
  LET s == S.wss[w].clients[c] IN
  IF s = 0 THEN S
  ELSE IF S.socks[s].readyState = "OPEN"
  THEN [S EXCEPT !.socks[s].missed = @ \/ S.socks[s].awaitingPong,
                 !.socks[s].awaitingPong = TRUE]
  ELSE IF S.socks[s].readyState \in {"CLOSED", "CLOSING"}
  THEN UpdateLastActivity([S EXCEPT !.wss[w].clients[c] = 0], S.wss[w].sid)
  ELSE S

\* One client of the ping interval when client.ping() may throw (lines
\* 173-179): the catch only logs, and forEach goes on.  pingFailed records
\* that the latest ping of the connection threw.
PingOrEvict(S, w, c, throws) ==
  LET s == S.wss[w].clients[c] IN
  IF s = 0 THEN S
  ELSE IF S.socks[s].readyState = "OPEN" /\ c \in throws
  THEN [S EXCEPT !.socks[s].pingFailed = TRUE]
  ELSE [HeartbeatClient(S, w, c) EXCEPT !.socks[s].pingFailed = FALSE]

\* The mutation: the exception of a ping leaves the forEach.
HeartbeatClientsAbortOnThrow(S, w, throws) ==
  LET s == S.wss[w].clients["c1"] IN
  IF s # 0 /\ S.socks[s].readyState = "OPEN" /\ "c1" \in throws
  THEN PingOrEvict(S, w, "c1", throws)
  ELSE PingOrEvict(PingOrEvict(S, w, "c1", throws), w, "c2", throws)

\* clients.forEach of the ping interval (lines 172-186).
HeartbeatClients(S, w, throws) ==
  PingOrEvict(PingOrEvict(S, w, "c1", throws), w, "c2", throws)

\* The callback of the ping interval of a listener (lines 166-187), every
\* 30 s until the wrapped close clears the interval; throwSets are the sets
\* of clients whose ping may throw.
PingInterval(w, throwSets) ==
  /\ w \in 1..Len(wss)
  /\ wss[w].pingInterval
  /\ UNCHANGED <<detached, trig, resp, starts, shutdown>> /\ lastConn' = NoConn
  /\ \E throws \in throwSets : Commit(HeartbeatClients(Store, w, throws))
  /\ ev' = [op |-> "heartbeat", t |-> 0, w |-> w]

\* The callback of the ping interval when no ping throws.
Heartbeat(w) == PingInterval(w, {{}})

\* -------------------------------------------------------------- idle sweep

InactiveThreshold == 1    \* 30 * 60 * 1000 ms, in half hours

\* The configuration the callers of the sweep's specification use for an
\* identifier: one port each.
SweepConfig(serverId) ==
  [port |-> IF serverId = "ws-main" THEN 5680 ELSE 5681, path |-> "/ws",
   authentication |-> "none", serverSharing |-> "shared"]

InactiveAtThreshold(entry) ==
  /\ entry.activeExecutions = {}
  /\ entry.activeWorkflows = {}
  /\ entry.clients = NoClients
  /\ entry.lastActivity >= InactiveThreshold

\* cleanupInactiveServers, lines 81-84: the condition of the sweep
Inactive(entry) ==
  /\ entry.activeExecutions = {}
  /\ entry.activeWorkflows = {}
  /\ entry.clients = NoClients
  /\ entry.lastActivity > InactiveThreshold

\* The identifiers a run of the sweep calls closeServer for.
Swept(S) ==
  {id \in ServerIds : S.servers[id] # 0 /\ Inactive(S.wss[S.servers[id]])}

\* cleanupInactiveServers, lines 76-92, for one entry of the map: the
\* closeServer call is not awaited.
SweepServer(S, serverId) ==
  IF serverId \in Swept(S)
  THEN CloseServerCall(S, serverId, "false", "automatic_cleanup").S
  ELSE S

\* cleanupInactiveServers, lines 70-93
CleanupInactiveServers(S) == SweepServer(SweepServer(S, "ws-main"), "ws-aux")

\* The callback of the cleanup interval (lines 63-68), every 5 minutes: a
\* close an earlier run started has returned long before.
Sweep ==
  /\ \A w \in 1..AllWss : detached[w] = 0
  /\ UNCHANGED <<trig, resp, starts, shutdown>> /\ lastConn' = NoConn
  /\ Commit(CleanupInactiveServers(Store))
  /\ detached' = [w \in 1..AllWss |->
                    IF \E id \in Swept(Store) : servers[id] = w THEN 1 ELSE 0]
  /\ ev' = [op |-> "sweep", t |-> 0, w |-> 0]

\* Half an hour passes without any call or event.
Tick ==
  /\ \A w \in 1..AllWss : detached[w] = 0
  /\ \E id \in ServerIds :
       servers[id] # 0 /\ wss[servers[id]].lastActivity < MaxAge
  /\ UNCHANGED <<servers, socks, timers, detached, ctx, trig, resp, starts, shutdown>>
  /\ lastClose' = NoClose /\ lastGoc' = NoGoc /\ lastConn' = NoConn
  /\ wss' = [w \in 1..Len(wss) |->
               IF (\E id \in ServerIds : servers[id] = w)
                    /\ wss[w].lastActivity < MaxAge
               THEN [wss[w] EXCEPT !.lastActivity = @ + 1]
               ELSE wss[w]]
  /\ ev' = [op |-> "tick", t |-> 0, w |-> 0]

\* A node calls getOrCreateServer for an identifier that has no entry, with
\* the configuration of the identifier.  (On an entry, the call with the
\* same configuration only refreshes lastActivity, as the calls below do.)
CallGetOrCreateServer(serverId, maxWss) ==
  /\ servers[serverId] = 0
  /\ Len(wss) < maxWss
  /\ UNCHANGED <<detached, trig, resp, starts, shutdown>> /\ lastConn' = NoConn
  /\ LET g == GetOrCreateCall(Store, serverId, SweepConfig(serverId), TRUE)
     IN /\ ~g.suspended
        /\ Commit(g.S)
        /\ ev' = [op |-> "getOrCreateServer", t |-> 0, w |-> g.w]

\* A node calls registerExecution or unregisterExecution.
CallExecution(serverId, executionId, register) ==
  /\ servers[serverId] # 0
  /\ register <=> executionId \notin wss[servers[serverId]].activeExecutions
  /\ UNCHANGED <<detached, trig, resp, starts, shutdown>> /\ lastConn' = NoConn
  /\ Commit(IF register
            THEN RegisterExecution(Store, serverId, executionId)
            ELSE UnregisterExecution(Store, serverId, executionId))
  /\ ev' = [op |-> IF register THEN "registerExecution"
                   ELSE "unregisterExecution", t |-> 0, w |-> servers[serverId]]

\* A node calls registerWorkflow or unregisterWorkflow.
CallWorkflow(serverId, workflowId, register) ==
  /\ servers[serverId] # 0
  /\ register <=> workflowId \notin wss[servers[serverId]].activeWorkflows
  /\ UNCHANGED <<detached, trig, resp, starts, shutdown>> /\ lastConn' = NoConn
  /\ Commit(IF register
            THEN RegisterWorkflow(Store, serverId, workflowId)
            ELSE UnregisterWorkflow(Store, serverId, workflowId))
  /\ ev' = [op |-> IF register THEN "registerWorkflow"
                   ELSE "unregisterWorkflow", t |-> 0, w |-> servers[serverId]]

\* The mutation: a lookup that refreshes every entry of the map.
GetServerCallTouchesAll(S, serverId) ==
  UpdateLastActivity(UpdateLastActivity(S, "ws-main"), "ws-aux")

\* getServer (lines 321-328), its effect on the registry: loadRegistry
\* reads the file and recreates nothing, and the entry found is refreshed.
\* GetServer above is the value the call returns.
GetServerCall(S, serverId) == UpdateLastActivity(S, serverId)

\* listServers (lines 479-509) and listClients: the entries and their
\* clients are logged.
ListServers(S) == S

\* A node calls getServer, for an identifier with or without entry.
CallGetServer(serverId) ==
  /\ UNCHANGED <<detached, trig, resp, starts, shutdown>> /\ lastConn' = NoConn
  /\ Commit(GetServerCall(Store, serverId))
  /\ ev' = [op |-> "getServer", t |-> 0, w |-> GetServer(Store, serverId)]

\* A node calls listServers.
CallListServers ==
  /\ UNCHANGED <<detached, trig, resp, starts, shutdown>> /\ lastConn' = NoConn
  /\ Commit(ListServers(Store))
  /\ ev' = [op |-> "listServers", t |-> 0, w |-> 0]

\* ------------------------------------------------------------ specification

Init ==
  /\ servers = [id \in ServerIds |-> 0]
  /\ wss = <<>>
  /\ socks = <<>>
  /\ timers = [id \in ServerIds |-> 0]
  /\ detached = [w \in 1..AllWss |-> 0]
  /\ ctx = [servers |-> [id \in ServerIds |-> "none"],
            listeners |-> [id \in ServerIds |-> {}]]
  /\ trig = [t \in Triggers |-> IdleTrigger]
  /\ resp = [r \in 1..AllResps |-> IdleResp]
  /\ starts = 0
  /\ shutdown = [pc |-> "none", awaits |-> {}]
  /\ lastClose = NoClose
  /\ lastGoc = NoGoc
  /\ lastConn = NoConn
  /\ ev = [op |-> "init", t |-> 0, w |-> 0]

\* Spec: shared-mode triggers, the client connections of their server and
\* the response items that send to them; every port is free, so every bind
\* succeeds.
Next ==
  \/ \E t \in Triggers : TriggerStart(t, SharedParams, {TRUE}, MaxStarts, MaxWss)
  \/ \E t \in Triggers : CloseFunction(t, FALSE)
  \/ \E t \in Triggers : CloseFnWake(t)
  \/ \E t \in Triggers : CloseFnResume(t)
  \/ \E t \in Triggers : ExecutionTimeout(t)
  \/ \E t \in Triggers : CleanupResume(t)
  \/ \E r \in Resps : RespStart(r, {"c1"}, {"custom"})
  \/ \E r \in Resps : RespSendDone(r)
  \/ \E r \in Resps : RespRetry(r)
  \/ \E w \in 1..AllWss : Upgrade(w, FreshIds(w), MaxSocks)
  \/ \E s \in 1..AllWss : SockClosed(s)

Spec == Init /\ [][Next]_vars

\* SpecClients: shared and exclusive triggers and the client connections.
NextClients ==
  \/ \E t \in Triggers : TriggerStart(t, TriggerParams, {TRUE}, MaxStarts, MaxWss)
  \/ \E t \in Triggers : TriggerStartResume(t, {TRUE})
  \/ \E t \in Triggers : TriggerGocResume(t, {TRUE})
  \/ \E t \in Triggers : CloseFunction(t, FALSE)
  \/ \E t \in Triggers : CloseFnWake(t)
  \/ \E t \in Triggers : CloseFnResume(t)
  \/ \E t \in Triggers : ExecutionTimeout(t)
  \/ \E t \in Triggers : CleanupResume(t)
  \/ \E id \in ServerIds : TimerFire(id)
  \/ \E w \in 1..AllWss : DetachedResume(w)
  \/ \E w \in 1..AllWss : Upgrade(w, FreshIds(w), MaxSocks)
  \/ \E s \in 1..AllWss : SockClosed(s)

SpecClients == Init /\ [][NextClients]_vars

\* SpecRace: triggers that change the port of the server, on ports that
\* another process may hold.
NextRace ==
  \/ \E t \in Triggers : TriggerStart(t, RaceParams, BOOLEAN, RaceStarts, RaceWss)
  \/ \E t \in Triggers : TriggerStartResume(t, BOOLEAN)
  \/ \E t \in Triggers : TriggerGocResume(t, BOOLEAN)
  \/ \E t \in Triggers : CloseFunction(t, FALSE)
  \/ \E t \in Triggers : CloseFnResume(t)
  \/ \E t \in Triggers : ExecutionTimeout(t)
  \/ \E t \in Triggers : CleanupResume(t)
  \/ \E id \in ServerIds : TimerFire(id)
  \/ \E w \in 1..AllWss : DetachedResume(w)

SpecRace == Init /\ [][NextRace]_vars

\* SpecAuth: one trigger, with or without authentication, and the upgrade
\* requests its server receives.
NextAuth ==
  \/ TriggerStart(1, AuthParams, {TRUE}, 1, 1)
  \/ CloseFunction(1, FALSE)
  \/ CloseFnResume(1)
  \/ \E w \in 1..AllWss : Upgrade(w, FreshIds(w), AuthSocks)
  \/ \E s \in 1..AllWss : SockClosed(s)

SpecAuth == Init /\ [][NextAuth]_vars

\* SpecSend: one shared trigger, the client connections of its server and
\* the response items that send to them or broadcast.
NextSend ==
  \/ TriggerStart(1, {NoParams}, {TRUE}, 1, 1)
  \/ CloseFunction(1, FALSE)
  \/ CloseFnResume(1)
  \/ \E r \in Resps : RespStart(r, {"c1"}, {"custom"})
  \/ \E r \in Resps : RespSendDone(r)
  \/ \E r \in Resps : RespRetry(r)
  \/ \E w \in 1..AllWss : Upgrade(w, FreshIds(w), SendSocks)
  \/ \E s \in 1..AllWss : SockClosed(s)

SpecSend == Init /\ [][NextSend]_vars
\* SpecBeat: one shared trigger, the client connections of its server, the
\* ping interval of the listener and the pongs of the peers.
NextBeat ==
  \/ TriggerStart(1, {NoParams}, {TRUE}, 1, 1)
  \/ CloseFunction(1, FALSE)
  \/ CloseFnResume(1)
  \/ \E w \in 1..AllWss : Upgrade(w, FreshIds(w), BeatSocks)
  \/ \E s \in 1..AllWss : SockClosed(s)
  \/ \E s \in 1..AllWss : PeerClose(s)
  \/ \E s \in 1..AllWss : Pong(s)
  \/ \E w \in 1..AllWss : Heartbeat(w)

SpecBeat == Init /\ [][NextBeat]_vars
\* SpecMsg: shared-mode triggers of several workflows on one server and the
\* messages of its clients.
NextMsg ==
  \/ \E t \in Triggers : TriggerStart(t, MsgParams, {TRUE}, MsgStarts, MaxWss)
  \/ \E t \in Triggers : CloseFunction(t, FALSE)
  \/ \E t \in Triggers : CloseFnResume(t)
  \/ \E t \in Triggers : ExecutionTimeout(t)
  \/ \E t \in Triggers : TestTimeout(t)
  \/ \E t \in Triggers : CleanupResume(t)
  \/ \E w \in 1..AllWss : Upgrade(w, FreshIds(w), MsgSocks)
  \/ \E s \in 1..AllWss : SockClosed(s)
  \/ \E s \in 1..AllWss : Message(s, MaxMsgs, {"object"})

SpecMsg == Init /\ [][NextMsg]_vars

\* SpecIdem: shared and exclusive triggers whose closeFunction the
\* orchestrator invokes any number of times.
NextIdem ==
  \/ \E t \in Triggers : TriggerStart(t, TriggerParams, {TRUE}, IdemStarts, MaxWss)
  \/ \E t \in Triggers : TriggerStartResume(t, {TRUE})
  \/ \E t \in Triggers : TriggerGocResume(t, {TRUE})
  \/ \E t \in Triggers : CloseFunction(t, TRUE)
  \/ \E t \in Triggers : CloseFnWake(t)
  \/ \E t \in Triggers : CloseFnResume(t)
  \/ \E t \in Triggers : ExecutionTimeout(t)
  \/ \E t \in Triggers : CleanupResume(t)
  \/ \E id \in ServerIds : TimerFire(id)
  \/ \E w \in 1..AllWss : DetachedResume(w)

SpecIdem == Init /\ [][NextIdem]_vars

\* SpecExcl: exclusive triggers, the client connections of their server and
\* the response items that register executions on it while they send.
NextExcl ==
  \/ \E t \in Triggers : TriggerStart(t, ExclParams, {TRUE}, ExclStarts, MaxWss)
  \/ \E t \in Triggers : TriggerStartResume(t, {TRUE})
  \/ \E t \in Triggers : CloseFunction(t, FALSE)
  \/ \E t \in Triggers : CloseFnResume(t)
  \/ \E id \in ServerIds : TimerFire(id)
  \/ \E w \in 1..AllWss : DetachedResume(w)
  \/ \E r \in Resps : RespStart(r, {"c1"}, {"custom"})
  \/ \E r \in Resps : RespSendDone(r)
  \/ \E r \in Resps : RespRetry(r)
  \/ \E w \in 1..AllWss : Upgrade(w, FreshIds(w), ExclSocks)
  \/ \E s \in 1..AllWss : SockClosed(s)

SpecExcl == Init /\ [][NextExcl]_vars

\* SpecFrames: shared triggers on one server and the frames, structured or
\* not, its clients send.
NextFrames ==
  \/ \E t \in Triggers : TriggerStart(t, {NoParams}, {TRUE}, FrameStarts, MaxWss)
  \/ \E t \in Triggers : CloseFunction(t, FALSE)
  \/ \E t \in Triggers : CloseFnResume(t)
  \/ \E w \in 1..AllWss : Upgrade(w, FreshIds(w), FrameSocks)
  \/ \E s \in 1..AllWss : SockClosed(s)
  \/ \E s \in 1..AllWss : Message(s, MaxFrames, Bodies)

SpecFrames == Init /\ [][NextFrames]_vars

\* SpecFifo: one shared trigger and the frames of the clients of its
\* server, in any interleaving.
NextFifo ==
  \/ TriggerStart(1, {NoParams}, {TRUE}, 1, 1)
  \/ CloseFunction(1, FALSE)
  \/ CloseFnResume(1)
  \/ \E w \in 1..AllWss : Upgrade(w, FreshIds(w), FifoSocks)
  \/ \E s \in 1..AllWss : SockClosed(s)
  \/ \E s \in 1..AllWss : Message(s, FifoFrames, {"object", "hello"})

SpecFifo == Init /\ [][NextFifo]_vars

\* SpecIds: one shared trigger and client connections whose identifier is
\* any token the generator can return (line 205), one in use included.
NextIds ==
  \/ TriggerStart(1, {NoParams}, {TRUE}, 1, 1)
  \/ CloseFunction(1, FALSE)
  \/ CloseFnResume(1)
  \/ \E w \in 1..AllWss : Upgrade(w, ClientIds, IdSocks)
  \/ \E s \in 1..AllWss : SockClosed(s)

SpecIds == Init /\ [][NextIds]_vars

\* SpecErr: one shared trigger and client connections that close or fail.
NextErr ==
  \/ TriggerStart(1, {NoParams}, {TRUE}, 1, 1)
  \/ CloseFunction(1, FALSE)
  \/ CloseFnResume(1)
  \/ \E w \in 1..AllWss : Upgrade(w, FreshIds(w), ErrSocks)
  \/ \E s \in 1..AllWss : SockClosed(s)
  \/ \E s \in 1..AllWss : SockError(s)

SpecErr == Init /\ [][NextErr]_vars

\* SpecSweep: the registry under its callers, the clients of its servers,
\* the passing of time and the idle sweep.
NextSweep ==
  \/ \E id \in ServerIds : CallGetOrCreateServer(id, SweepWss)
  \/ \E id \in ServerIds, b \in BOOLEAN : CallExecution(id, "e1", b)
  \/ \E id \in ServerIds, b \in BOOLEAN : CallWorkflow(id, "wf1", b)
  \/ \E w \in 1..AllWss : Upgrade(w, FreshIds(w) \cap {"c1"}, SweepSocks)
  \/ \E s \in 1..AllWss : SockClosed(s)
  \/ \E w \in 1..AllWss : DetachedResume(w)
  \/ Tick
  \/ Sweep

SpecSweep == Init /\ [][NextSweep]_vars

\* A suspended closeServer call returns to its caller.
CloseReturns ==
  \/ \E t \in Triggers : TriggerStartResume(t, {TRUE})
  \/ \E t \in Triggers : TriggerGocResume(t, {TRUE})
  \/ \E t \in Triggers : CloseFnResume(t)
  \/ \E t \in Triggers : CleanupResume(t)
  \/ \E w \in 1..AllWss : DetachedResume(w)
  \/ \E w \in 1..AllWss : CleanupCloseResume(w)
  \/ CleanupDone

\* SpecClose: triggers that change the configuration of the server (the
\* first one is the first to start), their closeFunctions and timeouts, the
\* shutdown of the registry, after which nothing new begins, and listeners
\* that report the end of their close or never do.  The event loop runs a
\* continuation that is ready: while some suspended closeServer call can
\* return, one of them does.
NextClose ==
  \/ \E t \in Triggers :
       /\ shutdown.pc = "none"
       /\ t = 1 \/ trig[1].pc # "idle"
       /\ TriggerStart(t, CloseParams, {TRUE}, CloseStarts, CloseWss)
  \/ \E t \in Triggers : shutdown.pc = "none" /\ CloseFunction(t, FALSE)
  \/ \E t \in Triggers : shutdown.pc = "none" /\ ExecutionTimeout(t)
  \/ \E id \in ServerIds : TimerFire(id)
  \/ \E w \in 1..AllWss : Unbound(w)
  \/ Cleanup
  \/ CloseReturns

SpecClose == Init /\ [][NextClose]_vars /\ WF_vars(CloseReturns)

\* SpecVerify: one trigger of any authentication mode and the upgrade
\* requests its server verifies.
NextVerify ==
  \/ TriggerStart(1, VerifyParams, {TRUE}, 1, 1)
  \/ CloseFunction(1, FALSE)
  \/ CloseFnResume(1)
  \/ \E w \in 1..AllWss : UpgradeRequest(w, FreshIds(w) \cap {"c1"}, VerifySocks)
  \/ \E s \in 1..AllWss : SockClosed(s)

SpecVerify == Init /\ [][NextVerify]_vars

\* SpecItems: one shared trigger, the clients of its server and one
\* execution of the response node, which processes its items in turn.
NextItems ==
  \/ TriggerStart(1, {NoParams}, {TRUE}, 1, 1)
  \/ CloseFunction(1, FALSE)
  \/ CloseFnResume(1)
  \/ \E r \in 1..ItemResps :
       /\ \A q \in 1..(r - 1) : resp[q].pc = "done"
       /\ RespStart(r, {"c1"}, {"custom", "fromInput"})
  \/ \E r \in 1..ItemResps : RespSendDone(r)
  \/ \E r \in 1..ItemResps : RespRetry(r)
  \/ \E w \in 1..AllWss : Upgrade(w, FreshIds(w) \cap {"c1"}, ItemSocks)
  \/ \E s \in 1..AllWss : SockClosed(s)

SpecItems == Init /\ [][NextItems]_vars

\* SpecRead: the entries of two identifiers, their references and clients,
\* the time that passes, and the lookups and listings of the registry.
NextRead ==
  \/ \E id \in ServerIds : CallGetOrCreateServer(id, ReadWss)
  \/ \E id \in ServerIds, b \in BOOLEAN : CallExecution(id, "e1", b)
  \/ \E id \in ServerIds, b \in BOOLEAN : CallWorkflow(id, "wf1", b)
  \/ \E w \in 1..AllWss : Upgrade(w, FreshIds(w) \cap {"c1"}, ReadSocks)
  \/ \E s \in 1..AllWss : SockClosed(s)
  \/ Tick
  \/ \E id \in ServerIds : CallGetServer(id)
  \/ CallListServers

SpecRead == Init /\ [][NextRead]_vars

\* SpecPing: one shared trigger, the client connections of its server,
\* their frames, decodable or not, and the ping interval of the listener,
\* whose pings may throw.
NextPing ==
  \/ TriggerStart(1, {NoParams}, {TRUE}, 1, 1)
  \/ CloseFunction(1, FALSE)
  \/ CloseFnResume(1)
  \/ \E w \in 1..AllWss : Upgrade(w, FreshIds(w), PingSocks)
  \/ \E s \in 1..AllWss : SockClosed(s)
  \/ \E s \in 1..AllWss : Message(s, PingFrames, {"object", "hello"})
  \/ \E w \in 1..AllWss : PingInterval(w, {{}, {"c1"}})

SpecPing == Init /\ [][NextPing]_vars

\* ------------------------------------------------------------------- claims

SameConfig(entry, config) ==
  /\ entry.port = config.port
  /\ entry.path = config.path
  /\ entry.serverSharing = EffSharing(config)

SocksOf(w) == {s \in 1..Len(socks) : socks[s].w = w}

LiveListeners(id) ==
  {w \in 1..Len(wss) : wss[w].sid = id /\ wss[w].bind = "listening"}

\* C1: in Shared mode no teardown issued by a trigger (closeFunction or
\* timeout cleanup) hard-closes the entry while the multiset of registered,
\* not yet unregistered execution ids is non-empty.
C1_NoHardCloseWhilePending ==
  (/\ lastClose.branch = "hard"
   /\ lastClose.serverSharing = "shared"
   /\ lastClose.by \in {"closeFunction", "cleanupExecution"})
  => lastClose.pending = {}

\* C2: a closeServer call on an existing entry takes the hard branch exactly
\* when, on the entry as the call finds it, the sharing mode is exclusive, or
\* activeExecutions and activeWorkflows are both empty, or keepClientsAlive
\* is explicitly false; and no listener stops listening in a step that is
\* not such a hard close of it.
C2_HardCloseIffCondition ==
  /\ [](lastClose.branch \in {"hard", "soft"} =>
          (lastClose.branch = "hard" <=>
             \/ lastClose.serverSharing = "exclusive"
             \/ (lastClose.executions = {} /\ lastClose.workflows = {})
             \/ lastClose.opt = "false"))
  /\ [][\A w \in 1..Len(wss) :
          (wss[w].bind = "listening" /\ wss'[w].bind # "listening")
          => (lastClose'.branch = "hard" /\ lastClose'.w = w)]_vars

\* a hard close decided only by the empty reference sets
C2_Witness ==
  /\ lastClose.branch = "hard"
  /\ lastClose.opt = "true"
  /\ lastClose.serverSharing = "shared"

\* C3: when a hard close has completed, every connection of the entry is
\* closed or closing with code 1000, the listener is unbound, the heartbeat
\* timer is cleared and getServer(id) returns absent.
C3_HardCloseCompletes ==
  ev.op = "closeDone" =>
    /\ \A s \in SocksOf(ev.w) :
         \/ socks[s].readyState = "CLOSED"
         \/ (socks[s].readyState = "CLOSING" /\ socks[s].code = 1000)
    /\ wss[ev.w].bind # "listening"
    /\ ~wss[ev.w].pingInterval
    /\ GetServer(Store, wss[ev.w].sid) = 0

\* a hard close that had a client to close has completed
C3_Witness ==
  /\ ev.op = "closeDone"
  /\ \E s \in SocksOf(ev.w) : socks[s].readyState = "CLOSING"

\* C4: the soft branch of closeServer changes nothing: registry map,
\* listeners, client tables, connections, heartbeat timers and reference
\* sets are as before the call, so getClient finds the same clients.
C4_SoftCloseChangesNothing ==
  lastClose.branch = "soft" =>
    /\ lastClose.framed
    /\ wss[lastClose.w].bind = lastClose.bind
    /\ wss[lastClose.w].pingInterval = lastClose.ping
    /\ wss[lastClose.w].activeExecutions = lastClose.executions
    /\ wss[lastClose.w].activeWorkflows = lastClose.workflows
    /\ \A c \in ClientIds :
         GetClient(Store, wss[lastClose.w].sid, c) = wss[lastClose.w].clients[c]

\* a soft close on a bound entry with an open client, still in the table
C4_Witness ==
  /\ lastClose.branch = "soft"
  /\ wss[lastClose.w].bind = "listening"
  /\ wss[lastClose.w].pingInterval
  /\ \E c \in ClientIds :
       /\ GetClient(Store, TheServer, c) # 0
       /\ socks[GetClient(Store, TheServer, c)].readyState = "OPEN"

\* C5: on an exclusive entry closeServer with keepClientsAlive true takes
\* the hard branch whatever the reference sets hold: the listener is closed
\* and no client of the table is left open; when the close of an exclusive
\* listener completes, its identifier has no entry.
C5_ExclusiveAlwaysHard ==
  /\ (/\ lastClose.branch \in {"hard", "soft"}
      /\ lastClose.serverSharing = "exclusive"
      /\ lastClose.opt = "true")
     => /\ lastClose.branch = "hard"
        /\ wss[lastClose.w].bind = "closing"
        /\ \A s \in TableSocks(wss[lastClose.w]) : socks[s].readyState # "OPEN"
  /\ (ev.op = "closeDone" /\ wss[ev.w].serverSharing = "exclusive")
     => GetServer(Store, wss[ev.w].sid) = 0

\* an exclusive entry with registered references closed with keepClientsAlive
C5_Witness ==
  /\ lastClose.branch = "hard"
  /\ lastClose.serverSharing = "exclusive"
  /\ lastClose.opt = "true"
  /\ lastClose.workflows # {}

\* C6: a server identifier has at most one live listener.
C6_AtMostOneLiveListener ==
  \A id \in ServerIds : Cardinality(LiveListeners(id)) <= 1

\* C7: getOrCreateServer on an entry stored with the same port, path and
\* sharing mode returns that entry's listener, creates nothing and changes
\* nothing; the same call made again at once returns the same listener.
C7_SameConfigReuses ==
  (/\ lastGoc.phase # "none"
   /\ lastGoc.prev # 0
   /\ SameConfig(wss[lastGoc.prev], lastGoc.config))
  => /\ lastGoc.phase = "returned"
     /\ lastGoc.w = lastGoc.prev
     /\ ~lastGoc.created
     /\ lastClose.branch = "none"
     /\ LET again == GetOrCreateCall(Store, TheServer, lastGoc.config, TRUE)
        IN /\ ~again.suspended
           /\ again.w = lastGoc.w
           /\ Core(again.S) = Core(Store)

\* a second trigger obtained the listener of the first, which has a client
C7_Witness ==
  /\ lastGoc.phase = "returned"
  /\ lastGoc.prev # 0
  /\ lastGoc.w = lastGoc.prev
  /\ SameConfig(wss[lastGoc.prev], lastGoc.config)
  /\ TableSocks(wss[lastGoc.w]) # {}

\* C8: getOrCreateServer with a config that differs from the stored one
\* returns a new listener bound to the requested config, the old one
\* having been hard-closed first.
C8_ChangedConfigRecreates ==
  (/\ lastGoc.phase = "returned"
   /\ lastGoc.prev # 0
   /\ ConfigChanged(wss[lastGoc.prev], lastGoc.config))
  => /\ lastGoc.created
     /\ wss[lastGoc.prev].bind # "listening"
     /\ SameConfig(wss[lastGoc.w], lastGoc.config)
     /\ wss[lastGoc.w].bind = "listening"

\* C9: a listener that getOrCreateServer created and returned is bound, and
\* the registry holds no entry whose bind failed.
C9_BindErrorSurfaces ==
  /\ lastGoc.created => wss[lastGoc.w].bind = "listening"
  /\ \A id \in ServerIds :
       servers[id] # 0 => wss[servers[id]].bind # "failed"

\* C10: an upgrade request whose verification fails on a server with
\* authentication is not accepted and adds no client.
C10_FailedVerificationRejected ==
  (/\ lastConn.w # 0
   /\ lastConn.authentication # "none"
   /\ ~lastConn.credentialsOk)
  => (~lastConn.accepted /\ lastConn.sock = 0)

\* C11: sending to one client makes at most MaxRetries attempts with one
\* delay between two attempts and none before the first or after the last;
\* the item succeeds with the first attempt that succeeds, which is its last
\* one, and fails only after MaxRetries failed attempts, with the error of
\* the last of them.
C11_RetryLoop ==
  \A r \in Resps :
    LET it == resp[r]
        n == Len(it.log)
    IN /\ n <= MaxRetries
       /\ \A i \in 1..n : it.log[i] = "ok" => i = n
       /\ it.pc = "sendWait" => it.delays = n
       /\ it.pc = "retryWait" => (it.delays = n - 1 /\ n < MaxRetries)
       /\ (it.pc = "done" /\ n > 0) =>
            /\ it.delays = n - 1
            /\ it.result = "success" <=> it.log[n] = "ok"
            /\ it.result = "failure" =>
                 (n = MaxRetries /\ it.error = it.log[n])

\* the first two attempts fail and the third succeeds
C11_Witness ==
  \E r \in Resps :
    /\ resp[r].pc = "done"
    /\ resp[r].result = "success"
    /\ resp[r].log = <<"send_error", "send_error", "ok">>
    /\ resp[r].delays = 2

\* C12: an item addressed to a client id the table of the server does not
\* hold fails with the client-not-found error without any attempt or delay.
C12_ClientNotFound ==
  \A r \in Resps :
    (/\ resp[r].pc \in {"sendWait", "retryWait", "done"}
     /\ resp[r].clientId \notin {Undefined, "broadcast"}
     /\ resp[r].error # "server_not_found"
     /\ ~resp[r].found)
    => /\ resp[r].pc = "done"
       /\ resp[r].result = "failure"
       /\ resp[r].error = "client_not_found"
       /\ resp[r].log = <<>>
       /\ resp[r].delays = 0

\* a client id of a closed connection, looked up on a server that exists
C12_Witness ==
  \E r \in Resps :
    /\ resp[r].pc = "done"
    /\ resp[r].error = "client_not_found"
    /\ \E s \in 1..Len(socks) : socks[s].clientId = resp[r].clientId

\* C13: a broadcast makes one attempt for every live client and none for
\* the others, whatever attempts throw, and returns the number of sends
\* that succeeded.
C13_BroadcastReturnsCount ==
  \A r \in Resps :
    (resp[r].pc = "done" /\ resp[r].clientId = "broadcast"
       /\ resp[r].result = "success")
    => LET b == resp[r].broadcast
       IN /\ \A s \in DOMAIN b.attempts :
               b.attempts[s] = IF s \in b.live THEN 1 ELSE 0
          /\ b.sentCount + b.errorCount = Cardinality(b.live)
          /\ b.returned = [kind |-> "number", value |-> b.sentCount]

\* C14: a client whose ping of one heartbeat cycle was still unanswered
\* when the next cycle started is out of the client table and its
\* connection is no longer open.
C14_DeadClientEvicted ==
  \A s \in 1..Len(socks) :
    socks[s].missed =>
      /\ s \notin TableSocks(wss[socks[s].w])
      /\ socks[s].readyState # "OPEN"

\* C15: the heartbeat leaves a connected client without an outstanding ping
\* in the client table and open.
C15_AliveClientKept ==
  [][\A w \in 1..Len(wss) : \A s \in 1..Len(socks) :
       (/\ ev'.op = "heartbeat" /\ ev'.w = w
        /\ s \in TableSocks(wss[w])
        /\ socks[s].readyState = "OPEN"
        /\ ~socks[s].awaitingPong)
       => (s \in TableSocks(wss'[w]) /\ socks'[s].readyState = "OPEN")]_vars

\* a client that has answered a ping is pinged again by the next cycle
C15_Witness ==
  /\ ev.op = "heartbeat"
  /\ \E s \in TableSocks(wss[ev.w]) :
       /\ socks[s].readyState = "OPEN"
       /\ socks[s].answered
       /\ socks[s].awaitingPong
       /\ ~socks[s].missed

\* C16: a closeFunction invoked after the closure has run its closeFunction
\* or its timeout cleanup changes no registry state, unregisters nothing
\* and calls closeServer no more.
C16_CloseFunctionIdempotent ==
  [][ev'.op = "closeFunctionAgain" =>
       /\ <<servers', wss', socks', timers', ctx', detached'>>
            = <<servers, wss, socks, timers, ctx, detached>>
       /\ lastClose'.branch = "none"]_vars

\* a repeated closeFunction on a server that still has a registered workflow
C16_Witness ==
  /\ ev.op = "closeFunctionAgain"
  /\ servers[TheServer] # 0
  /\ wss[servers[TheServer]].activeWorkflows # {}

\* Every trigger closure has had its closeFunction invoked and no close or
\* timer is still on its way.
AllClosed ==
  /\ \E t \in Triggers : trig[t].pc = "closed"
  /\ \A t \in Triggers : trig[t].pc \in {"idle", "closed"} /\ trig[t].cu = "none"
  /\ \A id \in ServerIds : timers[id] = 0
  /\ \A w \in 1..AllWss : detached[w] = 0

\* C17: once every trigger has had its closeFunction invoked, the entry
\* holds no workflow or execution id of a trigger and, nothing else
\* referencing it, it is gone and no listener of the identifier is bound.
C17_NoOrphanAfterClose ==
  AllClosed =>
    \A id \in ServerIds :
      /\ servers[id] # 0 =>
           /\ wss[servers[id]].activeWorkflows = {}
           /\ wss[servers[id]].activeExecutions
                \cap {Exec(t) : t \in Triggers} = {}
      /\ (\A r \in Resps : resp[r].pc \in {"idle", "done"}) =>
           (servers[id] = 0 /\ LiveListeners(id) = {})

\* C18: the timeout cleanup of a trigger leaves the registry in the state
\* a closeFunction invoked at that moment would have produced.
C18_TimeoutSameAsClose ==
  [][\A t \in Triggers :
       (ev'.op \in {"cleanup", "cleanupSuspend"} /\ ev'.t = t) =>
         <<servers', wss', socks', timers'>>
           = Core(CloseFunctionCall(Store, t, trig[t].p).S)]_vars

\* C19: while both workflows have an active trigger attached to the same
\* shared listener, a message of a client of that listener is delivered to
\* the consumer of each of them.
C19_SharedDeliversToAll ==
  [][\A w \in 1..Len(wss) :
       (/\ ev'.op = "message" /\ ev'.w = w
        /\ wss[w].serverSharing = "shared"
        /\ \A t \in Triggers :
             /\ trig[t].pc = "attached" /\ ~trig[t].cleanupExecuted
             /\ trig[t].w = w)
       => \A t \in Triggers :
            trig'[t].messageCount = trig[t].messageCount + 1]_vars

\* C20: the entry of an exclusive server holds at most one workflow id.
C20_ExclusiveOneWorkflow ==
  \A id \in ServerIds :
    (servers[id] # 0 /\ wss[servers[id]].serverSharing = "exclusive")
    => Cardinality(wss[servers[id]].activeWorkflows) <= 1

\* C21: a step in which the last execution id leaves an exclusive entry
\* that has no workflow id, or the last workflow id leaves an exclusive
\* entry that has no execution id, arms the timer of the deferred close of
\* that entry.
C21_LastUnregisterDefersClose ==
  [][\A id \in ServerIds :
       LET w == servers[id] IN
       (/\ w # 0 /\ servers'[id] = w
        /\ wss[w].serverSharing = "exclusive"
        /\ wss'[w].activeExecutions = {} /\ wss'[w].activeWorkflows = {}
        /\ wss[w].activeExecutions \cup wss[w].activeWorkflows # {})
       => timers'[id] = timers[id] + 1]_vars

\* The events emitted upward for frame n of connection s: the listener and
\* the position in what that listener has emitted.
EventsOf(s, n) ==
  LET w == socks[s].w IN
  UNION { { <<t, i>> : i \in { j \in 1..Len(wss[w].emitted[t]) :
                                /\ wss[w].emitted[t][j].s = s
                                /\ wss[w].emitted[t][j].n = n } }
          : t \in Triggers }

\* The event holds the payload of the frame: every field of a decoded
\* object with its value, the value of another decoded document, or the raw
\* text of a frame that does not decode.
Carries(data, body) ==
  LET doc == JsonParse(body) IN
  IF ~doc.ok THEN data["message"] = body
  ELSE IF doc.type = "object"
  THEN \A k \in Keys : doc.fields[k] # Absent => data[k] = doc.fields[k]
  ELSE \E k \in Keys : data[k] = body

\* C22: every frame a connection has received has produced exactly one
\* message event, which carries the payload of the frame, the identifier
\* of the sending client, the server identifier and a timestamp.
C22_EveryFrameOneEvent ==
  \A s \in 1..Len(socks) : \A n \in 1..Len(socks[s].frames) :
    /\ Cardinality(EventsOf(s, n)) = 1
    /\ \A x \in EventsOf(s, n) :
         LET data == wss[socks[s].w].emitted[x[1]][x[2]].data
         IN /\ Carries(data, socks[s].frames[n].body)
            /\ data["clientId"] = socks[s].clientId
            /\ data["serverId"] = wss[socks[s].w].sid
            /\ data["timestamp"] # Absent

\* C23: what a listener of a server has emitted upward for one connection
\* is, in order and once each, the frames the connection received while
\* that listener was on the server, whatever the other connections sent
\* in between.
C23_FifoPerConnection ==
  \A w \in 1..Len(wss) : \A t \in Triggers : \A s \in SocksOf(w) :
    LET E == wss[w].emitted[t]
        I == {i \in 1..Len(E) : E[i].s = s}
    IN /\ \A i, j \in I : i < j => E[i].n < E[j].n
       /\ {E[i].n : i \in I}
            = {n \in 1..Len(socks[s].frames) : t \in socks[s].frames[n].listeners}
       /\ \A i \in I :
            E[i].data = OutputData(MessageEvent(socks[s].frames[E[i].n].body,
                                                socks[s].clientId), wss[w].sid)

\* two frames of a connection delivered around a frame of another one
C23_Witness ==
  \E w \in 1..Len(wss) : \E t \in Triggers :
    LET E == wss[w].emitted[t]
    IN /\ Len(E) >= 3
       /\ E[1].s = E[3].s /\ E[2].s # E[1].s
       /\ E[1].n = 1 /\ E[3].n = 2

\* C24: the client table of every listener holds exactly the connections
\* accepted on it whose close event has not arrived, each under the
\* identifier it was given.
C24_TableIsOpenConnections ==
  \A w \in 1..Len(wss) :
    /\ TableSocks(wss[w]) = {s \in SocksOf(w) : socks[s].readyState # "CLOSED"}
    /\ \A c \in ClientIds :
         wss[w].clients[c] # 0 => socks[wss[w].clients[c]].clientId = c

\* C25: in the step of the close event or of the error event of a
\* connection the client leaves the client table: getClient with its
\* identifier returns absent and it is no target of a broadcast.
C25_GoneOnCloseOrError ==
  [][\A s \in 1..Len(socks) :
       (/\ ev'.op \in {"sockClosed", "sockError"}
        /\ socks'[s].readyState # socks[s].readyState)
       => LET id == wss[socks[s].w].sid
              w == servers'[id]
          IN /\ w # 0 => wss'[w].clients[socks[s].clientId] = 0
             /\ wss'[socks[s].w].clients[socks[s].clientId] = 0
             /\ socks'[s].readyState # "OPEN"]_vars

\* C26: a run of the idle sweep starts the hard close of every entry whose
\* activeExecutions, activeWorkflows and clients are empty and whose last
\* activity is older than the idle threshold, and leaves every other entry
\* as it is.
C26_SweepClosesExactlyIdle ==
  [][ev'.op = "sweep" =>
       \A id \in ServerIds :
         LET w == servers[id] IN
         w # 0 =>
           IF /\ wss[w].activeExecutions = {}
              /\ wss[w].activeWorkflows = {}
              /\ TableSocks(wss[w]) = {}
              /\ wss[w].lastActivity > InactiveThreshold
           THEN /\ detached'[w] = 1
                /\ wss'[w].bind # "listening"
                /\ ~wss'[w].pingInterval
           ELSE /\ detached'[w] = 0
                /\ wss'[w] = wss[w]
                /\ servers'[id] = w]_vars

\* a run that closed one idle entry and kept another, as old, for its
\* registered execution
C26_Witness ==
  /\ ev.op = "sweep"
  /\ \E id1, id2 \in ServerIds :
       /\ servers[id1] # 0 /\ servers[id2] # 0
       /\ wss[servers[id1]].bind = "closing" /\ detached[servers[id1]] = 1
       /\ wss[servers[id2]].bind = "listening"
       /\ wss[servers[id2]].lastActivity > InactiveThreshold
       /\ wss[servers[id2]].activeExecutions # {}

\* C27: a response item and a closeServer call that name an identifier
\* without entry end with the server-not-found error, the item without any
\* attempt or delay, and leave the registry as it was.
C27_ServerNotFoundSurfaces ==
  [][/\ (ev'.op = "respStart" /\ servers[TheServer] = 0) =>
          (/\ \E r \in Resps :
                /\ resp[r].pc = "idle" /\ resp'[r].pc = "done"
                /\ resp'[r].result = "failure"
                /\ resp'[r].error = "server_not_found"
                /\ resp'[r].log = <<>> /\ resp'[r].delays = 0
           /\ <<servers', wss', socks', timers'>> = <<servers, wss, socks, timers>>)
     /\ lastClose'.branch = "absent" =>
          (/\ lastClose'.error = "server_not_found"
           /\ \A id \in ServerIds :
                (servers[id] = 0) =>
                  (Core(CloseServerCall(Store, id, lastClose'.opt, lastClose'.by).S)
                     = Core(Store)))]_vars

\* C28: the output item of every processed input item tells success from
\* failure and holds the server id and the client id the item used and, on
\* failure, the message of the error.
C28_OutputItemDiagnostics ==
  \A r \in 1..AllResps :
    resp[r].pc = "done" =>
      LET out == resp[r].out IN
      /\ out.success <=> resp[r].result = "success"
      /\ out.serverId = TheServer
      /\ out.clientId = resp[r].clientId
      /\ ~out.success => (out.error # Absent /\ out.error = resp[r].error)

\* What the request of the last upgrade carried for the mode of its server:
\* a Basic user and password, the configured header, or a bearer token.
CarriesCredential ==
  LET headers == lastConn.check.headers
      expectedAuth == lastConn.check.credentials
  IN CASE lastConn.authentication = "basicAuth" -> BasicAuth(headers).defined
       [] lastConn.authentication = "headerAuth" ->
            HasOwnProperty(headers, ToLowerCase(expectedAuth.name))
       [] lastConn.authentication = "jwtAuth" ->
            Len(headers["authorization"]) >= 2
       [] OTHER -> FALSE

\* The node of the last upgrade has the credential of its mode, with no
\* empty field.
Configured ==
  LET expectedAuth == lastConn.check.credentials
  IN /\ expectedAuth.defined
     /\ lastConn.authentication = "basicAuth" =>
          (expectedAuth.user # "" /\ expectedAuth.password # "")
     /\ lastConn.authentication = "headerAuth" =>
          (expectedAuth.name # "" /\ expectedAuth.value # "")

\* The credential the request of the last upgrade carried is the configured
\* one.
CredentialMatches ==
  LET headers == lastConn.check.headers
      expectedAuth == lastConn.check.credentials
  IN CASE lastConn.authentication = "basicAuth" ->
            /\ BasicAuth(headers).name = expectedAuth.user
            /\ BasicAuth(headers).pass = expectedAuth.password
       [] lastConn.authentication = "headerAuth" ->
            headers[ToLowerCase(expectedAuth.name)] = <<expectedAuth.value>>
       [] lastConn.authentication = "jwtAuth" ->
            JwtVerify(headers["authorization"][2],
                      IF expectedAuth.keyType = "passphrase"
                      THEN expectedAuth.secret ELSE expectedAuth.publicKey,
                      {expectedAuth.algorithm})
       [] OTHER -> FALSE

\* C29: in each of the basic, header and JWT modes the check fails with 500
\* when the node has no credential configured, with 401 when the request
\* carries no credential and with 403 when the credential it carries is not
\* the configured one, and allows the upgrade when it is.
C29_AuthenticationCodes ==
  (lastConn.w # 0 /\ lastConn.authentication # "none") =>
    lastConn.check.thrown =
      IF ~Configured THEN 500
      ELSE IF ~CarriesCredential THEN 401
      ELSE IF ~CredentialMatches THEN 403
      ELSE 0

\* The closeServer calls that are suspended on the close of a listener.
Suspended ==
  \/ \E t \in Triggers : trig[t].pc \in {"startClose", "gocClose", "cfClose"}
  \/ \E t \in Triggers : trig[t].cu = "closing"
  \/ \E w \in 1..AllWss : detached[w] > 0
  \/ shutdown.pc = "closing"

\* C30: every closeServer call returns, whether or not the listener ever
\* reports the end of its close: again and again no call of a trigger
\* start, of a getOrCreateServer on a changed configuration, of a
\* closeFunction, of a cleanupExecution, of a timer or of the shutdown
\* cleanup is suspended, so none waits for ever; and when a hard close
\* returns, its server id has no entry and its listener does not listen.
C30_CloseServerTerminates ==
  /\ []<>(~Suspended)
  /\ [](ev.op = "closeDone" =>
          (servers[wss[ev.w].sid] = 0 /\ wss[ev.w].bind # "listening"))

\* the shutdown cleanup has ended although a listener it closed never
\* reported the end of its close
C30_Witness ==
  /\ shutdown.pc = "done"
  /\ ev.op = "shutdownDone"
  /\ \E w \in 1..Len(wss) : wss[w].bind = "closing"

\* C31: getServer and listServers leave the map of the registry, every
\* listener with its clients, executions and workflows, every connection
\* and every timer as they are; getServer changes nothing but the last
\* activity of the entry it finds, which it refreshes, and listServers
\* changes nothing at all.
C31_LookupsReadOnly ==
  [][/\ ev'.op \in {"getServer", "listServers"} =>
          /\ servers' = servers /\ socks' = socks /\ timers' = timers
          /\ ctx' = ctx /\ detached' = detached
          /\ Len(wss') = Len(wss)
          /\ \A w \in 1..Len(wss) :
               wss'[w] = [wss[w] EXCEPT !.lastActivity = wss'[w].lastActivity]
     /\ ev'.op = "getServer" =>
          \A w \in 1..Len(wss) :
            wss'[w].lastActivity = IF w = ev'.w THEN 0 ELSE wss[w].lastActivity
     /\ ev'.op = "listServers" => wss' = wss]_vars

\* a lookup has refreshed the entry it found, with its client and its
\* execution, beside an entry that has been idle for a while
C31_Witness ==
  /\ ev.op = "getServer" /\ ev.w # 0
  /\ wss[ev.w].lastActivity = 0
  /\ TableSocks(wss[ev.w]) # {} /\ wss[ev.w].activeExecutions # {}
  /\ \E id \in ServerIds :
       servers[id] \notin {0, ev.w} /\ wss[servers[id]].lastActivity > 0

\* C32: a frame, decodable or not, and a cycle of the ping interval, with
\* pings that throw or not, leave the registry map, the listener and its
\* ping interval as they are; the frame is emitted once through every
\* listener of the server, and the cycle sends its ping to every open
\* client whose ping does not throw.
C32_InternalErrorsSwallowed ==
  [][\A w \in 1..Len(wss) :
       (ev'.op \in {"message", "heartbeat"} /\ ev'.w = w) =>
         /\ servers' = servers
         /\ wss'[w].bind = wss[w].bind
         /\ wss'[w].pingInterval = wss[w].pingInterval
         /\ ev'.op = "message" =>
              /\ wss'[w].clients = wss[w].clients
              /\ \A t \in Triggers :
                   Len(wss'[w].emitted[t]) =
                     Len(wss[w].emitted[t]) + IF t \in wss[w].listeners THEN 1 ELSE 0
         /\ ev'.op = "heartbeat" =>
              \A s \in TableSocks(wss[w]) :
                socks[s].readyState = "OPEN" =>
                  /\ s \in TableSocks(wss'[w])
                  /\ \/ socks'[s].pingFailed
                     \/ socks'[s].awaitingPong]_vars

\* a cycle whose ping threw for one client and reached the other, on a
\* server that has emitted a frame received after one that did not decode
C32_Witness ==
  /\ ev.op = "heartbeat"
  /\ wss[ev.w].pingInterval
  /\ \E s1, s2 \in TableSocks(wss[ev.w]) :
       /\ socks[s1].pingFailed /\ ~socks[s1].awaitingPong
       /\ ~socks[s2].pingFailed /\ socks[s2].awaitingPong
  /\ \E s \in SocksOf(ev.w) :
       /\ Len(socks[s].frames) = 2
       /\ ~JsonParse(socks[s].frames[1].body).ok
       /\ JsonParse(socks[s].frames[2].body).ok
       /\ Len(wss[ev.w].emitted[1]) = 2

\* C33: the closeFunction of a manual execution with keep_listening leaves
\* the entry of its server in the registry, the listener as it is and
\* every client connection as it is.
C33_KeepListeningKeepsServer ==
  [][\A t \in Triggers :
       (/\ ev'.t = t
        /\ ev'.op \in {"closeFunction", "closeSuspend", "closeFunctionSleep"}
        /\ trig[t].pc = "attached" /\ ~trig[t].cleanupExecuted
        /\ trig[t].p.mode = "manual"
        /\ trig[t].p.testExecutionBehavior = "keep_listening")
       => /\ servers' = servers
          /\ \A w \in 1..Len(wss) : wss'[w].bind = wss[w].bind
          /\ socks' = socks]_vars

\* C34: the closeFunction of a regular execution in shared mode, run on an
\* entry of the registry, starts the hard close of the server when its own
\* workflow was the only one registered on the entry, and otherwise leaves
\* the entry in the registry, the listener bound and every client
\* connection as it is.
C34_SharedCloseFunctionDecision ==
  [][\A t \in Triggers :
       (/\ ev'.t = t
        /\ ev'.op \in {"closeFunction", "closeSuspend"}
        /\ trig[t].pc = "attached" /\ ~trig[t].cleanupExecuted
        /\ trig[t].p.mode # "manual"
        /\ trig[t].p.serverSharing = "shared"
        /\ servers[TheServer] # 0)
       => LET w == servers[TheServer] IN
          IF wss[w].activeWorkflows \ {Workflow(t)} = {}
          THEN /\ lastClose'.branch = "hard" /\ lastClose'.w = w
               /\ wss'[w].bind # "listening"
               /\ \A s \in TableSocks(wss[w]) : socks'[s].readyState # "OPEN"
          ELSE /\ servers' = servers
               /\ wss'[w].bind = wss[w].bind
               /\ socks' = socks]_vars

\* C35: a closeServer call that returns from its wait removes no entry but
\* the one of the listener it closed: an entry created under the same
\* identifier in the meantime stays in the registry, and no listener is
\* left listening without its entry.
C35_CloseRemovesOnlyItsEntry ==
  [][ev'.op = "closeDone" =>
       /\ \A id \in ServerIds :
            servers[id] \notin {0, ev'.w} => servers'[id] = servers[id]
       /\ \A w \in 1..Len(wss') :
            wss'[w].bind = "listening" => servers'[wss'[w].sid] = w]_vars

\* C36: the closeServer call of the timer that unregisterWorkflow armed
\* closes no entry that has a registered workflow or execution when the
\* timer fires.
C36_DeferredCloseRechecks ==
  (lastClose.by = "last_workflow_removed" /\ lastClose.branch = "hard")
    => (lastClose.workflows = {} /\ lastClose.executions = {})

\* C37: once the closeFunction of a trigger has returned, a frame of a
\* client of the server adds no emission through that trigger, after a soft
\* close as well.
C37_ClosedTriggerEmitsNothing ==
  [][ev'.op = "message" =>
       \A t \in Triggers :
         trig[t].pc = "closed" =>
           \A w \in 1..Len(wss) : wss'[w].emitted[t] = wss[w].emitted[t]]_vars

\* C38: a response item leaves the activeExecutions of the entry as it
\* found them: none of its steps removes an execution id that was
\* registered when it started, and when it is finished, successfully or
\* not, its own execution id is registered on the entry only if it was
\* registered there before.
C38_ResponseLeavesExecutions ==
  [][\A r \in Resps :
       LET w == IF resp[r].pc = "idle" THEN servers[TheServer] ELSE resp[r].w
           before == IF resp[r].pc = "idle"
                     THEN IF w = 0 THEN {} ELSE wss[w].activeExecutions
                     ELSE resp[r].executionsBefore
       IN (/\ ev'.op \in {"respStart", "respSendDone", "respRetry"}
           /\ resp'[r] # resp[r]
           /\ w # 0 /\ servers'[TheServer] = w)
          => /\ (before \cap wss[w].activeExecutions) \subseteq wss'[w].activeExecutions
             /\ resp'[r].pc = "done" =>
                  (resp'[r].executionId \in wss'[w].activeExecutions
                     => resp'[r].executionId \in before)]_vars

\* C39: the listener a getOrCreateServer call returns has the port, the
\* path and the sharing mode of the requested config, whatever the state
\* of the listener the identifier mapped to when the call was made.
C39_ReturnedListenerHasConfig ==
  lastGoc.phase = "returned" => SameConfig(wss[lastGoc.w], lastGoc.config)

\* Two frames that differ at most in the payload fields clientId and
\* serverId.
DifferOnlyInIds(b1, b2) ==
  /\ JsonParse(b1).ok /\ JsonParse(b2).ok
  /\ JsonParse(b1).type = JsonParse(b2).type
  /\ \A k \in Keys \ {"clientId", "serverId"} :
       Spread(JsonParse(b1))[k] = Spread(JsonParse(b2))[k]

\* C40: the events emitted for two frames of one connection that differ
\* only in payload fields named clientId or serverId carry the same
\* clientId and serverId: the identifier the listener gave the connection
\* and the identifier of the server.
C40_IdsNotFromPayload ==
  \A w \in 1..Len(wss) : \A t1, t2 \in Triggers :
    \A i \in 1..Len(wss[w].emitted[t1]) : \A j \in 1..Len(wss[w].emitted[t2]) :
      LET a == wss[w].emitted[t1][i]
          b == wss[w].emitted[t2][j]
      IN (/\ a.s = b.s
          /\ DifferOnlyInIds(socks[a.s].frames[a.n].body, socks[b.s].frames[b.n].body))
         => /\ a.data["clientId"] = b.data["clientId"]
            /\ a.data["serverId"] = b.data["serverId"]
            /\ a.data["clientId"] = socks[a.s].clientId
            /\ a.data["serverId"] = wss[w].sid

\* a listener has emitted, for one connection, a plain frame and then the
\* same frame with a clientId or a serverId field
C40_Witness ==
  \E w \in 1..Len(wss) : \E t \in Triggers :
    LET E == wss[w].emitted[t]
    IN /\ Len(E) >= 2
       /\ E[1].s = E[2].s
       /\ socks[E[1].s].frames[E[1].n].body = "object"
       /\ socks[E[2].s].frames[E[2].n].body \in {"objectWithClientId", "objectWithServerId"}
       /\ socks[E[1].s].clientId # "spoof" /\ wss[w].sid # "spoof"
====
